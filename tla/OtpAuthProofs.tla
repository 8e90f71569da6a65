---------------------------- MODULE OtpAuthProofs ---------------------------
(***************************************************************************)
(* Theorems about OtpAuth, for any e-mails, challenges and requests, and   *)
(* any values of the settings.                                             *)
(***************************************************************************)
EXTENDS OtpAuth, TLAPS

-----------------------------------------------------------------------------
(***************************************************************************)
(* The steps of the specification, in the shapes that the invariants tell  *)
(* apart.                                                                  *)
(***************************************************************************)

\* A request is refused on arrival, or queues for the lock of a committed row.
Enter(r, c) ==
    /\ c \in Calls
    /\ pc[r] = "idle"
    /\ call' = [call EXCEPT ![r] = c]
    /\ \/ /\ pc' = [pc EXCEPT ![r] = "reply"]
          /\ result' \in { [result EXCEPT ![r] = res] :
                              res \in {"rate_limited", "not_found"} }
       \/ /\ c \in VerifyCalls
          /\ challenges[c.ch] # Absent
          /\ pc' = [pc EXCEPT ![r] = "lock"]
          /\ result' = [result EXCEPT ![r] = "none"]
    /\ UNCHANGED <<now, store, issued, mail, locks, challenge>>

\* A request for a code draws a uuid.
Draw(r, c) ==
    /\ c \in RequestCalls
    /\ c.ch \notin issued
    /\ pc[r] = "idle"
    /\ issued' = issued \cup {c.ch}
    /\ pc' = [pc EXCEPT ![r] = "insert"]
    /\ call' = [call EXCEPT ![r] = c]
    /\ result' = [result EXCEPT ![r] = "none"]
    /\ UNCHANGED <<now, store, mail, locks, challenge>>

\* The gateway is content: SES has delivered, the other one delivers nothing.
Deliver(r) ==
    /\ pc[r] = "send"
    /\ mailed' \in {mailed, mailed \cup {call[r].ch}}
    /\ gateway = "ses" => call[r].ch \in mailed'
    /\ pc' = [pc EXCEPT ![r] = "store"]
    /\ UNCHANGED <<now, store, issued, gateway, locks, call, challenge, result>>

\* A request under way is refused or fails.
Drop(r, res) ==
    /\ pc[r] \in {"send", "lock", "register"}
    /\ res \in Statuses \ {"ok"}
    /\ mailed' \in {mailed, mailed \cup {call[r].ch}}
    /\ pc[r] # "send" => mailed' = mailed
    /\ UNCHANGED gateway
    /\ Refuse(r, res)

\* The lock is granted, for a right or a wrong code.
Locked(r) ==
    LET ch == call[r].ch IN
    /\ pc[r] = "lock"
    /\ challengeLock[ch] = None
    /\ ~ challenges[ch].consumed
    /\ ~ challenges[ch].attempts >= MaxAttempts
    /\ challengeLock' = [challengeLock EXCEPT ![ch] = r]
    /\ \/ /\ challenge' = [challenge EXCEPT ![r] = challenges[ch]]
          /\ pc' = [pc EXCEPT ![r] = "user"]
       \/ /\ challenge' = [challenge EXCEPT ![r] =
                              [challenges[ch] EXCEPT !.attempts = @ + 1]]
          /\ pc' = [pc EXCEPT ![r] = "count"]
    /\ UNCHANGED <<now, store, issued, mail, emailLock, call, result>>

\* The INSERT of the user goes through.
Registered(r) ==
    /\ pc[r] = "register"
    /\ emailLock[challenge[r].email] = None
    /\ emailLock' = [emailLock EXCEPT ![challenge[r].email] = r]
    /\ pc' = [pc EXCEPT ![r] = "consume"]
    /\ UNCHANGED <<now, store, issued, mail, challengeLock, call, challenge,
                   result>>

Step ==
    \/ UNCHANGED vars
    \/ Tick
    \/ \E r \in Requests : \E c \in Calls : Enter(r, c)
    \/ \E r \in Requests : \E c \in RequestCalls : Draw(r, c)
    \/ \E r \in Requests : InsertChallenge(r)
    \/ \E r \in Requests : Deliver(r)
    \/ \E r \in Requests : \E res \in Statuses : Drop(r, res)
    \/ \E r \in Requests : Locked(r)
    \/ \E r \in Requests : FindUser(r)
    \/ \E r \in Requests : Registered(r)
    \/ \E r \in Requests : ConsumeChallenge(r)
    \/ \E r \in Requests : InsertSession(r)
    \/ \E r \in Requests : Commit(r)
    \/ \E rs \in SUBSET Requests : Forget(rs)

\* Every step has one of these shapes.
LEMMA NextSteps == TypeOK /\ [Next]_vars => Step
  <1> SUFFICES ASSUME TypeOK, Next PROVE Step
    BY DEF Step
  <1>1. ASSUME NEW r \in Requests, NEW e \in Emails, RequestOtp(r, e)
        PROVE  \/ \E c \in Calls : Enter(r, c)
               \/ \E c \in RequestCalls : Draw(r, c)
    <2>1. RecentActive(e) \subseteq Challenges
      BY DEF RecentActive, Active
    <2>2. \A ch \in Challenges :
             [op |-> "request", email |-> e, ch |-> ch, at |-> now]
                \in RequestCalls
      BY DEF RequestCalls, TypeOK
    <2>3. CASE RecentActive(e) # {}
      <3>1. PICK ch \in RecentActive(e) :
                Open(r, [op |-> "request", email |-> e, ch |-> ch, at |-> now],
                     "reply", "rate_limited")
        BY <1>1, <2>3 DEF RequestOtp
      <3> DEFINE c == [op |-> "request", email |-> e, ch |-> ch, at |-> now]
      <3>2. c \in Calls
        BY <2>1, <2>2 DEF Calls
      <3>3. Enter(r, c)
        <4> HIDE DEF c
        <4>1. Open(r, c, "reply", "rate_limited")
          BY <3>1 DEF c
        <4> QED BY <1>1, <2>3, <3>2, <4>1 DEF RequestOtp, Open, Goto, Enter
      <3> QED BY <3>2, <3>3
    <2>4. CASE RecentActive(e) = {}
      <3>1. PICK ch \in Challenges \ issued :
                /\ issued' = issued \cup {ch}
                /\ Open(r, [op |-> "request", email |-> e, ch |-> ch, at |-> now],
                        "insert", "none")
        BY <1>1, <2>4 DEF RequestOtp
      <3> DEFINE c == [op |-> "request", email |-> e, ch |-> ch, at |-> now]
      <3>2. c \in RequestCalls /\ c.ch = ch
        BY <2>2
      <3>3. Draw(r, c)
        <4>1. Open(r, c, "insert", "none")
          BY <3>1
        <4> HIDE DEF c
        <4> QED BY <1>1, <3>1, <3>2, <4>1 DEF RequestOtp, Open, Goto, Draw
      <3> QED BY <3>2, <3>3
    <2> QED BY <2>3, <2>4
  <1>2. ASSUME NEW r \in Requests, NEW c \in VerifyCalls, VerifyOtp(r, c)
        PROVE  c \in Calls /\ Enter(r, c)
    BY <1>2 DEF VerifyOtp, Open, Goto, Enter, Calls
  <1>3. ASSUME NEW r \in Requests, SendOtp(r)
        PROVE  Deliver(r) \/ Drop(r, "error")
    BY <1>3 DEF SendOtp, Goto, Deliver, Drop, Statuses
  <1>4. ASSUME NEW r \in Requests, LockChallenge(r)
        PROVE  Locked(r) \/ \E res \in Statuses : Drop(r, res)
    <2> DEFINE row == challenges[call[r].ch]
    <2>1. Refusal(row) \in {"consumed", "expired", "limit", "none"}
      BY DEF Refusal
    <2>2. CASE Refusal(row) # "none"
      <3>1. Refuse(r, Refusal(row)) /\ UNCHANGED mail /\ pc[r] = "lock"
        BY <1>4, <2>2 DEF LockChallenge
      <3> QED BY <2>1, <2>2, <3>1 DEF Drop, Statuses, Refusals, mail
    <2>3. CASE Refusal(row) = "none"
      <3>1. /\ ~ row.consumed
            /\ ~ row.attempts >= MaxAttempts
        BY <2>3 DEF Refusal
      <3> QED BY <1>4, <2>3, <3>1 DEF LockChallenge, CanLock, Goto, Locked
    <2> QED BY <2>2, <2>3
  <1>5. ASSUME NEW r \in Requests, RegisterUser(r)
        PROVE  Registered(r) \/ Drop(r, "error")
    BY <1>5 DEF RegisterUser, Goto, Registered, Drop, Statuses, mail
  <1>6. ASSUME NEW r \in Requests, Reply(r) \/ Abort(r)
        PROVE  \E rs \in SUBSET Requests : Forget(rs)
    BY <1>6 DEF Reply, Abort
  <1>7. Crash => \E rs \in SUBSET Requests : Forget(rs)
    BY DEF Crash
  <1>8. "error" \in Statuses
    BY DEF Statuses
  <1> QED BY <1>1, <1>2, <1>3, <1>4, <1>5, <1>6, <1>7, <1>8
          DEF Next, Proceed, Wait, Step

-----------------------------------------------------------------------------
(***************************************************************************)
(* The parts of the inductive invariant.                                   *)
(***************************************************************************)

TypeInv == TypeOK /\ CallInv

\* TypeOK and CallInv are preserved by every step.
LEMMA TypeStep == TypeInv /\ Step => TypeInv'
  <1> SUFFICES ASSUME TypeInv, Step
               PROVE  TypeInv'
    OBVIOUS
  <1> USE DEF TypeInv, TypeOK, CallInv, Requesting, Verifying, Statuses,
            Refusals
  <1>1. CASE UNCHANGED vars
    BY <1>1 DEF vars, store, mail, locks
  <1>2. CASE Tick
    BY <1>2, SettingsAssumption DEF Tick, Times, store, mail, locks
  <1>3. ASSUME NEW r \in Requests, NEW c \in Calls, Enter(r, c)
        PROVE  TypeInv'
    BY <1>3 DEF Enter, store, mail, locks
  <1>4. ASSUME NEW r \in Requests, NEW c \in RequestCalls, Draw(r, c)
        PROVE  TypeInv'
    BY <1>4 DEF Draw, Calls, RequestCalls, store, mail, locks
  <1>5. ASSUME NEW r \in Requests, InsertChallenge(r)
        PROVE  TypeInv'
    <2>1. /\ call[r] \in RequestCalls
          /\ NewChallenge(call[r].email, call[r].at) \in Challenge
      BY <1>5, SettingsAssumption
         DEF InsertChallenge, NewChallenge, RequestCalls, Challenge, Times
    <2> QED BY <1>5, <2>1 DEF InsertChallenge, Goto, store, mail, locks
  <1>6. ASSUME NEW r \in Requests, Deliver(r)
        PROVE  TypeInv'
    BY <1>6 DEF Deliver, RequestCalls, store, mail, locks
  <1>7. ASSUME NEW r \in Requests, NEW res \in Statuses, Drop(r, res)
        PROVE  TypeInv'
    <2>1. mailed' \in SUBSET Challenges
      BY <1>7 DEF Drop, RequestCalls
    <2>2. call[r] \in Calls
      BY <1>7 DEF Drop, Calls
    <2> QED BY <1>7, <2>1, <2>2 DEF Drop, Refuse, Release, Goto, store, mail
  <1>8. ASSUME NEW r \in Requests, Locked(r)
        PROVE  TypeInv'
    <2> DEFINE row == challenges[call[r].ch]
    <2>1. call[r] \in VerifyCalls /\ call[r].ch \in Challenges /\ row \in Challenge
      BY <1>8 DEF Locked, VerifyCalls
    <2>2. [row EXCEPT !.attempts = @ + 1] \in Challenge
      BY <2>1 DEF Challenge
    <2> HIDE DEF row
    <2> QED BY <1>8, <2>1, <2>2 DEF Locked, row, store, mail
  <1>9. ASSUME NEW r \in Requests, FindUser(r)
        PROVE  TypeInv'
    BY <1>9 DEF FindUser, Goto, store, mail, locks
  <1>10. ASSUME NEW r \in Requests, Registered(r)
        PROVE  TypeInv'
    BY <1>10 DEF Registered, store, mail
  <1>11. ASSUME NEW r \in Requests, ConsumeChallenge(r)
        PROVE  TypeInv'
    <2>1. [challenge[r] EXCEPT !.consumed = TRUE] \in Challenge
      BY <1>11 DEF ConsumeChallenge, Challenge
    <2> QED BY <1>11, <2>1 DEF ConsumeChallenge, Goto, store, mail, locks
  <1>12. ASSUME NEW r \in Requests, InsertSession(r)
        PROVE  TypeInv'
    BY <1>12 DEF InsertSession, Goto, store, mail, locks
  <1>13. ASSUME NEW r \in Requests, Commit(r)
        PROVE  TypeInv'
    <2> DEFINE ch == call[r].ch
    <2>1. /\ call[r] \in Calls /\ ch \in Challenges
          /\ challenge[r] \in Challenge /\ challenge[r] # Absent
      BY <1>13, SentinelAssumption
         DEF Commit, RequestCalls, VerifyCalls, Calls
    <2>2. /\ challenges' = [challenges EXCEPT ![ch] = challenge[r]]
          /\ sessions' \in [Challenges -> Nat]
          /\ users' \in SUBSET Emails
      BY <1>13, <2>1 DEF Commit
    <2>3. /\ challengeLock' \in [Challenges -> Requests \cup {None}]
          /\ emailLock' \in [Emails -> Requests \cup {None}]
      BY <1>13 DEF Commit, Release
    <2>4. result' \in [Requests -> Statuses]
      BY <1>13 DEF Commit, Outcome, Statuses
    <2>5. pc' = [pc EXCEPT ![r] = "reply"]
      BY <1>13 DEF Commit, Goto
    <2> HIDE DEF ch
    <2>6. UNCHANGED <<now, issued, mail, call, challenge>>
      BY <1>13 DEF Commit
    <2>7. \A c \in Challenges : challenges[c] # Absent => challenges'[c] # Absent
      BY <2>1, <2>2
    <2>8. \A c \in VerifyCalls : c.ch \in Challenges
      BY DEF VerifyCalls
    <2>9. TypeOK'
      BY <2>1, <2>2, <2>3, <2>4, <2>5, <2>6 DEF mail
    <2>10. CallInv'
      BY <2>1, <2>5, <2>6, <2>7, <2>8
    <2> QED BY <2>9, <2>10
  <1>14. ASSUME NEW rs \in SUBSET Requests, Forget(rs)
        PROVE  TypeInv'
    BY <1>14 DEF Forget, store, mail
  <1> QED BY <1>1, <1>2, <1>3, <1>4, <1>5, <1>6, <1>7, <1>8, <1>9, <1>10,
          <1>11, <1>12, <1>13, <1>14 DEF Step

\* No uuid is drawn twice, and none gets a row before its commit.
LEMMA IssuedStep == TypeInv /\ IssuedInv /\ Step => IssuedInv'
  <1> SUFFICES ASSUME TypeInv, IssuedInv, Step
               PROVE  IssuedInv'
    OBVIOUS
  <1> USE DEF TypeInv, TypeOK, CallInv, IssuedInv, Requesting, Verifying,
            RequestCalls, VerifyCalls
  <1>1. CASE UNCHANGED vars
    BY <1>1 DEF vars, store, mail, locks
  <1>2. CASE Tick
    BY <1>2 DEF Tick, store, mail, locks
  <1>3. ASSUME NEW r \in Requests, NEW c \in Calls, Enter(r, c)
        PROVE  IssuedInv'
    BY <1>3 DEF Enter, store, mail, locks
  <1>4. ASSUME NEW r \in Requests, NEW c \in RequestCalls, Draw(r, c)
        PROVE  IssuedInv'
    BY <1>4 DEF Draw, store, mail, locks
  <1>5. ASSUME NEW r \in Requests, InsertChallenge(r)
        PROVE  IssuedInv'
    BY <1>5 DEF InsertChallenge, NewChallenge, Goto, store, mail, locks
  <1>6. ASSUME NEW r \in Requests, Deliver(r)
        PROVE  IssuedInv'
    BY <1>6 DEF Deliver, store, mail, locks
  <1>7. ASSUME NEW r \in Requests, NEW res \in Statuses, Drop(r, res)
        PROVE  IssuedInv'
    BY <1>7 DEF Drop, Refuse, Release, Goto, store, mail
  <1>8. ASSUME NEW r \in Requests, Locked(r)
        PROVE  IssuedInv'
    BY <1>8 DEF Locked, store, mail
  <1>9. ASSUME NEW r \in Requests, FindUser(r)
        PROVE  IssuedInv'
    BY <1>9 DEF FindUser, Goto, store, mail, locks
  <1>10. ASSUME NEW r \in Requests, Registered(r)
        PROVE  IssuedInv'
    BY <1>10 DEF Registered, store, mail
  <1>11. ASSUME NEW r \in Requests, ConsumeChallenge(r)
        PROVE  IssuedInv'
    BY <1>11 DEF ConsumeChallenge, Goto, store, mail, locks
  <1>12. ASSUME NEW r \in Requests, InsertSession(r)
        PROVE  IssuedInv'
    BY <1>12 DEF InsertSession, Goto, store, mail, locks
  <1>13. ASSUME NEW r \in Requests, Commit(r)
        PROVE  IssuedInv'
    <2>1. call[r].ch \in Challenges /\ call[r].ch \in issued
      BY <1>13, SentinelAssumption DEF Commit
    <2> QED BY <1>13, <2>1 DEF Commit, Release, Goto
  <1>14. ASSUME NEW rs \in SUBSET Requests, Forget(rs)
        PROVE  IssuedInv'
    BY <1>14 DEF Forget, store, mail
  <1> QED BY <1>1, <1>2, <1>3, <1>4, <1>5, <1>6, <1>7, <1>8, <1>9, <1>10,
          <1>11, <1>12, <1>13, <1>14 DEF Step

\* The row lock of a challenge and its verification go together.
LEMMA LockStep == TypeInv /\ LockInv /\ Step => LockInv'
  <1> SUFFICES ASSUME TypeInv, LockInv, Step
               PROVE  LockInv'
    OBVIOUS
  <1> USE DEF TypeInv, TypeOK, CallInv, LockInv, Requesting, Verifying,
            RequestCalls, VerifyCalls
  <1>1. CASE UNCHANGED vars
    BY <1>1 DEF vars, store, mail, locks
  <1>2. CASE Tick
    BY <1>2 DEF Tick, store, mail, locks
  <1>3. ASSUME NEW r \in Requests, NEW c \in Calls, Enter(r, c)
        PROVE  LockInv'
    BY <1>3 DEF Enter, store, mail, locks
  <1>4. ASSUME NEW r \in Requests, NEW c \in RequestCalls, Draw(r, c)
        PROVE  LockInv'
    BY <1>4 DEF Draw, store, mail, locks
  <1>5. ASSUME NEW r \in Requests, InsertChallenge(r)
        PROVE  LockInv'
    BY <1>5 DEF InsertChallenge, NewChallenge, Goto, store, mail, locks
  <1>6. ASSUME NEW r \in Requests, Deliver(r)
        PROVE  LockInv'
    BY <1>6 DEF Deliver, store, mail, locks
  <1>7. ASSUME NEW r \in Requests, NEW res \in Statuses, Drop(r, res)
        PROVE  LockInv'
    BY <1>7, SentinelAssumption
       DEF Drop, Refuse, Release, Goto, store, mail
  <1>8. ASSUME NEW r \in Requests, Locked(r)
        PROVE  LockInv'
    BY <1>8, SentinelAssumption DEF Locked, store, mail
  <1>9. ASSUME NEW r \in Requests, FindUser(r)
        PROVE  LockInv'
    BY <1>9 DEF FindUser, Goto, store, mail, locks
  <1>10. ASSUME NEW r \in Requests, Registered(r)
        PROVE  LockInv'
    BY <1>10, SentinelAssumption
       DEF Registered, store, mail
  <1>11. ASSUME NEW r \in Requests, ConsumeChallenge(r)
        PROVE  LockInv'
    BY <1>11 DEF ConsumeChallenge, Goto, store, mail, locks
  <1>12. ASSUME NEW r \in Requests, InsertSession(r)
        PROVE  LockInv'
    BY <1>12 DEF InsertSession, Goto, store, mail, locks
  <1>13. ASSUME NEW r \in Requests, Commit(r)
        PROVE  LockInv'
    BY <1>13, SentinelAssumption
       DEF Commit, Release, Goto
  <1>14. ASSUME NEW rs \in SUBSET Requests, Forget(rs)
        PROVE  LockInv'
    BY <1>14, SentinelAssumption
       DEF Forget, store, mail
  <1> QED BY <1>1, <1>2, <1>3, <1>4, <1>5, <1>6, <1>7, <1>8, <1>9, <1>10,
          <1>11, <1>12, <1>13, <1>14 DEF Step

\* A login under way always has a user.
LEMMA EmailStep == TypeInv /\ EmailInv /\ Step => EmailInv'
  <1> SUFFICES ASSUME TypeInv, EmailInv, Step
               PROVE  EmailInv'
    OBVIOUS
  <1> USE DEF TypeInv, TypeOK, CallInv, EmailInv, LoggingIn, Requesting,
            Verifying
  <1>1. CASE UNCHANGED vars
    BY <1>1 DEF vars, store, mail, locks
  <1>2. CASE Tick
    BY <1>2 DEF Tick, store, mail, locks
  <1>3. ASSUME NEW r \in Requests, NEW c \in Calls, Enter(r, c)
        PROVE  EmailInv'
    BY <1>3 DEF Enter, store, mail, locks
  <1>4. ASSUME NEW r \in Requests, NEW c \in RequestCalls, Draw(r, c)
        PROVE  EmailInv'
    BY <1>4 DEF Draw, store, mail, locks
  <1>5. ASSUME NEW r \in Requests, InsertChallenge(r)
        PROVE  EmailInv'
    BY <1>5 DEF InsertChallenge, NewChallenge, Goto, store, mail, locks
  <1>6. ASSUME NEW r \in Requests, Deliver(r)
        PROVE  EmailInv'
    BY <1>6 DEF Deliver, store, mail, locks
  <1>7. ASSUME NEW r \in Requests, NEW res \in Statuses, Drop(r, res)
        PROVE  EmailInv'
    BY <1>7, SentinelAssumption
       DEF Drop, Refuse, Release, Goto, store, mail
  <1>8. ASSUME NEW r \in Requests, Locked(r)
        PROVE  EmailInv'
    BY <1>8 DEF Locked, store, mail
  <1>9. ASSUME NEW r \in Requests, FindUser(r)
        PROVE  EmailInv'
    BY <1>9 DEF FindUser, Goto, store, mail, locks
  <1>10. ASSUME NEW r \in Requests, Registered(r)
        PROVE  EmailInv'
    <2>1. \A q \in Requests : pc[q] \in LoggingIn => challenge[q].email \in Emails
      BY DEF Challenge
    <2>2. challenge[r].email \in Emails
      BY <1>10 DEF Registered, Challenge
    <2> QED BY <1>10, <2>1, <2>2, SentinelAssumption DEF Registered, store, mail
  <1>11. ASSUME NEW r \in Requests, ConsumeChallenge(r)
        PROVE  EmailInv'
    BY <1>11 DEF ConsumeChallenge, Goto, store, mail, locks
  <1>12. ASSUME NEW r \in Requests, InsertSession(r)
        PROVE  EmailInv'
    BY <1>12 DEF InsertSession, Goto, store, mail, locks
  <1>13. ASSUME NEW r \in Requests, Commit(r)
        PROVE  EmailInv'
    <2>1. \A q \in Requests : pc[q] \in LoggingIn => challenge[q].email \in Emails
      BY DEF Challenge
    <2> QED BY <1>13, <2>1, SentinelAssumption DEF Commit, Release, Goto
  <1>14. ASSUME NEW rs \in SUBSET Requests, Forget(rs)
        PROVE  EmailInv'
    <2>1. \A q \in Requests : pc[q] \in LoggingIn => challenge[q].email \in Emails
      BY DEF Challenge
    <2> QED BY <1>14, <2>1, SentinelAssumption DEF Forget, store, mail
  <1> QED BY <1>1, <1>2, <1>3, <1>4, <1>5, <1>6, <1>7, <1>8, <1>9, <1>10,
          <1>11, <1>12, <1>13, <1>14 DEF Step

\* What a request has read under the lock stays as it is.
LEMMA RowStep == TypeInv /\ IssuedInv /\ LockInv /\ RowInv /\ Step => RowInv'
  <1> SUFFICES ASSUME TypeInv, IssuedInv, LockInv, RowInv, Step
               PROVE  RowInv'
    OBVIOUS
  <1> USE DEF TypeInv, TypeOK, CallInv, IssuedInv, LockInv, RowInv,
            Requesting, Verifying
  <1>1. CASE UNCHANGED vars
    BY <1>1 DEF vars, store, mail, locks
  <1>2. CASE Tick
    BY <1>2 DEF Tick, store, mail, locks
  <1>3. ASSUME NEW r \in Requests, NEW c \in Calls, Enter(r, c)
        PROVE  RowInv'
    BY <1>3 DEF Enter, store, mail, locks
  <1>4. ASSUME NEW r \in Requests, NEW c \in RequestCalls, Draw(r, c)
        PROVE  RowInv'
    BY <1>4 DEF Draw, store, mail, locks
  <1>5. ASSUME NEW r \in Requests, InsertChallenge(r)
        PROVE  RowInv'
    BY <1>5 DEF InsertChallenge, NewChallenge, Goto, store, mail, locks
  <1>6. ASSUME NEW r \in Requests, Deliver(r)
        PROVE  RowInv'
    BY <1>6 DEF Deliver, store, mail, locks
  <1>7. ASSUME NEW r \in Requests, NEW res \in Statuses, Drop(r, res)
        PROVE  RowInv'
    BY <1>7 DEF Drop, Refuse, Release, Goto, store, mail
  <1>8. ASSUME NEW r \in Requests, Locked(r)
        PROVE  RowInv'
    <2> DEFINE row == challenges[call[r].ch]
    <2>1. row \in Challenge
      BY <1>8 DEF Locked, VerifyCalls
    <2>2. /\ ~ row.consumed
          /\ row.attempts < MaxAttempts
      BY <1>8, <2>1, SettingsAssumption DEF Locked, Challenge
    <2>3. /\ [row EXCEPT !.attempts = @ + 1].email = row.email
          /\ [row EXCEPT !.attempts = @ + 1].consumed = row.consumed
          /\ [row EXCEPT !.attempts = @ + 1].attempts = row.attempts + 1
      BY <2>1 DEF Challenge
    <2>4. /\ UNCHANGED <<challenges, call>>
          /\ \A q \in Requests \ {r} : UNCHANGED <<pc[q], challenge[q]>>
          /\ \/ pc'[r] = "user" /\ challenge'[r] = row
             \/ /\ pc'[r] = "count"
                /\ challenge'[r] = [row EXCEPT !.attempts = @ + 1]
      BY <1>8 DEF Locked, store, mail
    <2>5. /\ challenge'[r].email = row.email
          /\ pc'[r] = "count" => /\ ~ challenge'[r].consumed
                                 /\ challenge'[r].attempts = row.attempts + 1
          /\ pc'[r] \in {"user", "count"}
      BY <2>2, <2>3, <2>4
    <2> QED BY <2>2, <2>4, <2>5
  <1>9. ASSUME NEW r \in Requests, FindUser(r)
        PROVE  RowInv'
    BY <1>9 DEF FindUser, Goto, store, mail, locks
  <1>10. ASSUME NEW r \in Requests, Registered(r)
        PROVE  RowInv'
    BY <1>10 DEF Registered, store, mail
  <1>11. ASSUME NEW r \in Requests, ConsumeChallenge(r)
        PROVE  RowInv'
    <2>1. /\ [challenge[r] EXCEPT !.consumed = TRUE].email = challenge[r].email
          /\ [challenge[r] EXCEPT !.consumed = TRUE].consumed
      BY <1>11 DEF ConsumeChallenge, Challenge
    <2> QED BY <1>11, <2>1 DEF ConsumeChallenge, Goto, store, mail, locks
  <1>12. ASSUME NEW r \in Requests, InsertSession(r)
        PROVE  RowInv'
    BY <1>12 DEF InsertSession, Goto, store, mail, locks
  <1>13. ASSUME NEW r \in Requests, Commit(r)
        PROVE  RowInv'
    BY <1>13 DEF Commit, Release, Goto
  <1>14. ASSUME NEW rs \in SUBSET Requests, Forget(rs)
        PROVE  RowInv'
    BY <1>14 DEF Forget, store, mail
  <1> QED BY <1>1, <1>2, <1>3, <1>4, <1>5, <1>6, <1>7, <1>8, <1>9, <1>10,
          <1>11, <1>12, <1>13, <1>14 DEF Step

\* With SES, a challenge is mailed before it is committed.
LEMMA FreshStep == TypeInv /\ FreshInv /\ Step => FreshInv'
  <1> SUFFICES ASSUME TypeInv, FreshInv, Step
               PROVE  FreshInv'
    OBVIOUS
  <1> USE DEF TypeInv, TypeOK, CallInv, FreshInv, Requesting, Verifying
  <1>1. CASE UNCHANGED vars
    BY <1>1 DEF vars, store, mail, locks
  <1>2. CASE Tick
    BY <1>2 DEF Tick, store, mail, locks
  <1>3. ASSUME NEW r \in Requests, NEW c \in Calls, Enter(r, c)
        PROVE  FreshInv'
    BY <1>3 DEF Enter, store, mail, locks
  <1>4. ASSUME NEW r \in Requests, NEW c \in RequestCalls, Draw(r, c)
        PROVE  FreshInv'
    BY <1>4 DEF Draw, store, mail, locks
  <1>5. ASSUME NEW r \in Requests, InsertChallenge(r)
        PROVE  FreshInv'
    BY <1>5 DEF InsertChallenge, NewChallenge, Goto, store, mail, locks
  <1>6. ASSUME NEW r \in Requests, Deliver(r)
        PROVE  FreshInv'
    BY <1>6 DEF Deliver, store, mail, locks
  <1>7. ASSUME NEW r \in Requests, NEW res \in Statuses, Drop(r, res)
        PROVE  FreshInv'
    BY <1>7 DEF Drop, Refuse, Release, Goto, store, mail
  <1>8. ASSUME NEW r \in Requests, Locked(r)
        PROVE  FreshInv'
    BY <1>8 DEF Locked, store, mail
  <1>9. ASSUME NEW r \in Requests, FindUser(r)
        PROVE  FreshInv'
    BY <1>9 DEF FindUser, Goto, store, mail, locks
  <1>10. ASSUME NEW r \in Requests, Registered(r)
        PROVE  FreshInv'
    BY <1>10 DEF Registered, store, mail
  <1>11. ASSUME NEW r \in Requests, ConsumeChallenge(r)
        PROVE  FreshInv'
    BY <1>11 DEF ConsumeChallenge, Goto, store, mail, locks
  <1>12. ASSUME NEW r \in Requests, InsertSession(r)
        PROVE  FreshInv'
    BY <1>12 DEF InsertSession, Goto, store, mail, locks
  <1>13. ASSUME NEW r \in Requests, Commit(r)
        PROVE  FreshInv'
    BY <1>13 DEF Commit, Release, Goto, mail
  <1>14. ASSUME NEW rs \in SUBSET Requests, Forget(rs)
        PROVE  FreshInv'
    BY <1>14 DEF Forget, store, mail
  <1> QED BY <1>1, <1>2, <1>3, <1>4, <1>5, <1>6, <1>7, <1>8, <1>9, <1>10,
          <1>11, <1>12, <1>13, <1>14 DEF Step

\* The four writes of a login take effect together, once.
LEMMA LoginStep ==
    ( /\ TypeInv /\ IssuedInv /\ LockInv /\ EmailInv /\ RowInv /\ FreshInv
      /\ LoginsAreWhole /\ Step )
    => LoginsAreWhole'
  <1> SUFFICES ASSUME TypeInv, IssuedInv, LockInv, EmailInv, RowInv, FreshInv,
                      LoginsAreWhole, Step
               PROVE  LoginsAreWhole'
    OBVIOUS
  <1> USE DEF TypeInv, TypeOK, CallInv, LoginsAreWhole
  <1>1. CASE UNCHANGED vars
    BY <1>1 DEF vars, store, mail, locks
  <1>2. CASE Tick
    BY <1>2 DEF Tick, store, mail, locks
  <1>3. ASSUME NEW r \in Requests, NEW c \in Calls, Enter(r, c)
        PROVE  LoginsAreWhole'
    BY <1>3 DEF Enter, store, mail, locks
  <1>4. ASSUME NEW r \in Requests, NEW c \in RequestCalls, Draw(r, c)
        PROVE  LoginsAreWhole'
    BY <1>4 DEF Draw, store, mail, locks
  <1>5. ASSUME NEW r \in Requests, InsertChallenge(r)
        PROVE  LoginsAreWhole'
    BY <1>5 DEF InsertChallenge, NewChallenge, Goto, store, mail, locks
  <1>6. ASSUME NEW r \in Requests, Deliver(r)
        PROVE  LoginsAreWhole'
    BY <1>6 DEF Deliver, store, mail, locks
  <1>7. ASSUME NEW r \in Requests, NEW res \in Statuses, Drop(r, res)
        PROVE  LoginsAreWhole'
    BY <1>7 DEF Drop, Refuse, Release, Goto, store, mail
  <1>8. ASSUME NEW r \in Requests, Locked(r)
        PROVE  LoginsAreWhole'
    BY <1>8 DEF Locked, store, mail
  <1>9. ASSUME NEW r \in Requests, FindUser(r)
        PROVE  LoginsAreWhole'
    BY <1>9 DEF FindUser, Goto, store, mail, locks
  <1>10. ASSUME NEW r \in Requests, Registered(r)
        PROVE  LoginsAreWhole'
    BY <1>10 DEF Registered, store, mail
  <1>11. ASSUME NEW r \in Requests, ConsumeChallenge(r)
        PROVE  LoginsAreWhole'
    BY <1>11 DEF ConsumeChallenge, Goto, store, mail, locks
  <1>12. ASSUME NEW r \in Requests, InsertSession(r)
        PROVE  LoginsAreWhole'
    BY <1>12 DEF InsertSession, Goto, store, mail, locks
  <1>13. ASSUME NEW r \in Requests, Commit(r)
        PROVE  LoginsAreWhole'
    <2> DEFINE ch == call[r].ch
               row == challenge[r]
    <2>1. /\ ch \in Challenges /\ row \in Challenge /\ row # Absent
          /\ row.email \in Emails
      BY <1>13, SentinelAssumption
         DEF Commit, Requesting, Verifying, RequestCalls, VerifyCalls, Challenge
    <2>2. /\ challenges' = [challenges EXCEPT ![ch] = row]
          /\ users' = users \cup { e \in Emails : emailLock[e] = r }
          /\ sessions' = [sessions EXCEPT ![ch] =
                              IF pc[r] = "login" THEN @ + 1 ELSE @]
      BY <1>13 DEF Commit
    <2>3. sessions[ch] = 0
      <3>1. challenges[ch] = Absent \/ ~ challenges[ch].consumed
        BY <1>13 DEF Commit, IssuedInv, RowInv, Requesting, Verifying
      <3> QED BY <2>1, <3>1
    <2>4. row.consumed <=> pc[r] = "login"
      BY <1>13 DEF Commit, RowInv, FreshInv, Verifying
    <2>5. pc[r] = "login" => row.email \in users'
      BY <2>1, <2>2 DEF EmailInv, LoggingIn
    <2>6. sessions'[ch] = IF pc[r] = "login" THEN 1 ELSE 0
      BY <2>1, <2>2, <2>3
    <2> HIDE DEF ch, row
    <2>7. ASSUME NEW c \in Challenges, c # ch
          PROVE  UNCHANGED <<challenges[c], sessions[c]>>
      BY <2>1, <2>2, <2>7
    <2>8. users \subseteq users' /\ challenges'[ch] = row
      BY <2>1, <2>2
    <2> QED BY <2>1, <2>4, <2>5, <2>6, <2>7, <2>8
  <1>14. ASSUME NEW rs \in SUBSET Requests, Forget(rs)
        PROVE  LoginsAreWhole'
    BY <1>14 DEF Forget, store, mail
  <1> QED BY <1>1, <1>2, <1>3, <1>4, <1>5, <1>6, <1>7, <1>8, <1>9, <1>10,
          <1>11, <1>12, <1>13, <1>14 DEF Step

\* A success answered by request_otp stays true until it is sent.
LEMMA AnswerStep ==
    ( /\ TypeInv /\ IssuedInv /\ LockInv /\ RowInv /\ FreshInv
      /\ AnsweredIsStoredAndSent /\ Step )
    => AnsweredIsStoredAndSent'
  <1> SUFFICES ASSUME TypeInv, IssuedInv, LockInv, RowInv, FreshInv,
                      AnsweredIsStoredAndSent, Step
               PROVE  AnsweredIsStoredAndSent'
    OBVIOUS
  <1> USE DEF TypeInv, TypeOK, CallInv, AnsweredIsStoredAndSent, Requesting,
            Verifying
  <1>1. CASE UNCHANGED vars
    BY <1>1 DEF vars, store, mail, locks
  <1>2. CASE Tick
    BY <1>2 DEF Tick, store, mail, locks
  <1>3. ASSUME NEW r \in Requests, NEW c \in Calls, Enter(r, c)
        PROVE  AnsweredIsStoredAndSent'
    BY <1>3 DEF Enter, store, mail, locks
  <1>4. ASSUME NEW r \in Requests, NEW c \in RequestCalls, Draw(r, c)
        PROVE  AnsweredIsStoredAndSent'
    BY <1>4 DEF Draw, store, mail, locks
  <1>5. ASSUME NEW r \in Requests, InsertChallenge(r)
        PROVE  AnsweredIsStoredAndSent'
    BY <1>5 DEF InsertChallenge, NewChallenge, Goto, store, mail, locks
  <1>6. ASSUME NEW r \in Requests, Deliver(r)
        PROVE  AnsweredIsStoredAndSent'
    BY <1>6 DEF Deliver, store, mail, locks
  <1>7. ASSUME NEW r \in Requests, NEW res \in Statuses, Drop(r, res)
        PROVE  AnsweredIsStoredAndSent'
    BY <1>7 DEF Drop, Refuse, Release, Goto, store, mail
  <1>8. ASSUME NEW r \in Requests, Locked(r)
        PROVE  AnsweredIsStoredAndSent'
    BY <1>8 DEF Locked, store, mail
  <1>9. ASSUME NEW r \in Requests, FindUser(r)
        PROVE  AnsweredIsStoredAndSent'
    BY <1>9 DEF FindUser, Goto, store, mail, locks
  <1>10. ASSUME NEW r \in Requests, Registered(r)
        PROVE  AnsweredIsStoredAndSent'
    BY <1>10 DEF Registered, store, mail
  <1>11. ASSUME NEW r \in Requests, ConsumeChallenge(r)
        PROVE  AnsweredIsStoredAndSent'
    BY <1>11 DEF ConsumeChallenge, Goto, store, mail, locks
  <1>12. ASSUME NEW r \in Requests, InsertSession(r)
        PROVE  AnsweredIsStoredAndSent'
    BY <1>12 DEF InsertSession, Goto, store, mail, locks
  <1>13. ASSUME NEW r \in Requests, Commit(r)
        PROVE  AnsweredIsStoredAndSent'
    <2> DEFINE ch == call[r].ch
               row == challenge[r]
    <2>1. /\ ch \in Challenges /\ row \in Challenge /\ row # Absent
      BY <1>13, SentinelAssumption DEF Commit, RequestCalls, VerifyCalls
    <2>2. /\ challenges' = [challenges EXCEPT ![ch] = row]
          /\ pc' = [pc EXCEPT ![r] = "reply"]
          /\ UNCHANGED <<call, gateway, mailed>>
          /\ \A q \in Requests \ {r} : result'[q] = result[q]
      BY <1>13 DEF Commit, Goto, mail
    <2>3. challenges[ch] # Absent => row.email = challenges[ch].email
      BY <1>13 DEF Commit, IssuedInv, RowInv
    <2>4. call[r].op = "request" =>
             /\ row.email = call[r].email
             /\ gateway = "ses" => ch \in mailed
      BY <1>13 DEF Commit, FreshInv, VerifyCalls
    <2> HIDE DEF ch, row
    <2>5. ASSUME NEW q \in Requests, q # r,
                 pc'[q] = "reply" /\ result'[q] = "ok" /\ call'[q].op = "request"
          PROVE  /\ gateway = "ses" => call[q].ch \in mailed'
                 /\ challenges'[call[q].ch] # Absent
                 /\ challenges'[call[q].ch].email = call[q].email
      <3>1. pc[q] = "reply" /\ result[q] = "ok" /\ call[q].op = "request"
        BY <2>2, <2>5
      <3>2. /\ gateway = "ses" => call[q].ch \in mailed
            /\ challenges[call[q].ch] # Absent
            /\ challenges[call[q].ch].email = call[q].email
        BY <3>1
      <3> QED BY <2>1, <2>2, <2>3, <3>2
    <2>6. call[r].op = "request" =>
             /\ gateway = "ses" => ch \in mailed'
             /\ challenges'[ch] # Absent
             /\ challenges'[ch].email = call[r].email
      BY <2>1, <2>2, <2>4
    <2> QED BY <2>2, <2>5, <2>6 DEF ch
  <1>14. ASSUME NEW rs \in SUBSET Requests, Forget(rs)
        PROVE  AnsweredIsStoredAndSent'
    BY <1>14 DEF Forget, store, mail
  <1> QED BY <1>1, <1>2, <1>3, <1>4, <1>5, <1>6, <1>7, <1>8, <1>9, <1>10,
          <1>11, <1>12, <1>13, <1>14 DEF Step

-----------------------------------------------------------------------------
(***************************************************************************)
(* The theorems.                                                           *)
(***************************************************************************)

\* The invariant holds at the start ...
LEMMA InitInv == Init => IInv
  <1> SUFFICES ASSUME Init PROVE IInv
    OBVIOUS
  <1> USE SettingsAssumption, SentinelAssumption DEF Init
  <1>1. TypeOK
    BY DEF TypeOK, Times, Statuses, GatewayFor
  <1>2. CallInv /\ IssuedInv /\ LockInv /\ EmailInv /\ RowInv /\ FreshInv
    BY DEF CallInv, IssuedInv, LockInv, EmailInv, RowInv, FreshInv, Requesting,
           Verifying, LoggingIn
  <1>3. LoginsAreWhole /\ AnsweredIsStoredAndSent
    BY DEF LoginsAreWhole, AnsweredIsStoredAndSent
  <1> QED BY <1>1, <1>2, <1>3 DEF IInv

\* ... and every step preserves it.
LEMMA InvStep == IInv /\ [Next]_vars => IInv'
  <1> SUFFICES ASSUME IInv, [Next]_vars PROVE IInv'
    OBVIOUS
  <1>1. Step
    BY NextSteps DEF IInv
  <1>2. TypeInv'
    BY <1>1, TypeStep DEF TypeInv, IInv
  <1>3. (IssuedInv /\ LockInv /\ EmailInv /\ RowInv /\ FreshInv)'
    BY <1>1, IssuedStep, LockStep, EmailStep, RowStep, FreshStep
       DEF TypeInv, IInv
  <1>4. (LoginsAreWhole /\ AnsweredIsStoredAndSent)'
    BY <1>1, LoginStep, AnswerStep DEF TypeInv, IInv
  <1> QED BY <1>2, <1>3, <1>4 DEF TypeInv, IInv

\* Every reachable state is of the declared types, and the locks, the rows at
\* hand and the committed rows fit together in it.
THEOREM InvariantHolds == Spec => []IInv
  <1> QED BY InitInv, InvStep, PTL DEF Spec

\* A challenge opens one session, exactly when it is consumed, for an e-mail
\* with a user, however many requests verify it and wherever they fail.
THEOREM OneLogin == Spec => []LoginsAreWhole
  <1>1. IInv => LoginsAreWhole
    BY DEF IInv
  <1> QED BY <1>1, InvariantHolds, PTL

\* A request_otp answered with success has left a challenge that verify_otp
\* finds, and with SES its code was mailed.
THEOREM AnsweredHolds == Spec => []AnsweredIsStoredAndSent
  <1>1. IInv => AnsweredIsStoredAndSent
    BY DEF IInv
  <1> QED BY <1>1, InvariantHolds, PTL

\* In every step a committed challenge stays as it is, or a request that has
\* checked it under its lock commits.
LEMMA ChallengeChanges ==
    ASSUME IInv, [Next]_vars, NEW ch \in Challenges,
           challenges'[ch] # challenges[ch], challenges[ch] # Absent
    PROVE  /\ ~ challenges[ch].consumed
           /\ challenges[ch].attempts < MaxAttempts
  <1> TypeOK
    BY DEF IInv
  <1>1. PICK r \in Requests : Commit(r)
    <2>1. Step
      BY NextSteps
    <2> QED BY <2>1
            DEF Step, vars, store, mail, Tick, Enter, Draw, InsertChallenge,
                Deliver, Drop, Refuse, Locked, FindUser, Registered, ConsumeChallenge,
                InsertSession, Forget
  <1>2. challenges' = [challenges EXCEPT ![call[r].ch] = challenge[r]]
    BY <1>1 DEF Commit
  <1>3. ch = call[r].ch
    BY <1>2 DEF TypeOK
  <1> QED BY <1>1, <1>3 DEF Commit, IInv, IssuedInv, RowInv, Requesting, Verifying

\* A challenge that was consumed, or whose attempts are used up, is final.
THEOREM ClosedIsFinal == Spec => ClosedStaysClosed
  <1>1. IInv /\ [Next]_vars => KeepsClosed
    <2> SUFFICES ASSUME IInv, [Next]_vars, NEW ch \in Challenges,
                        challenges[ch] # Absent,
                        challenges'[ch] # challenges[ch]
                 PROVE  /\ ~ challenges[ch].consumed
                        /\ ~ challenges[ch].attempts >= MaxAttempts
      BY DEF KeepsClosed
    <2> TypeOK
      BY DEF IInv
    <2>1. challenges[ch] \in Challenge
      BY DEF TypeOK
    <2> QED BY <2>1, ChallengeChanges, SettingsAssumption DEF Challenge
  <1>2. IInv /\ [Next]_vars => [KeepsClosed]_vars
    BY <1>1
  <1> QED BY <1>2, InvariantHolds, PTL DEF Spec, ClosedStaysClosed

\* Every wrong code that is answered has been counted, up to the limit.
THEOREM WrongCodesCount == Spec => WrongCodesAreCounted
  <1>1. IInv /\ [Next]_vars => CountsByOne
    <2> SUFFICES ASSUME IInv, [Next]_vars, NEW r \in Requests,
                        Commits(r, "count")
                 PROVE  LET ch == call[r].ch IN
                        /\ challenges'[ch].attempts = challenges[ch].attempts + 1
                        /\ challenges'[ch].attempts <= MaxAttempts
      BY DEF CountsByOne
    <2> TypeOK
      BY DEF IInv
    <2> DEFINE ch == call[r].ch
    <2>1. pc[r] = "count" /\ pc'[r] = "reply"
      BY DEF Commits
    <2>2. Commit(r)
      <3>1. Step
        BY NextSteps
      <3> QED BY <2>1, <3>1
              DEF Step, vars, Tick, Enter, Draw, InsertChallenge, Deliver, Drop,
                  Refuse, Locked, FindUser, Registered, ConsumeChallenge,
                  InsertSession, Commit, Forget, Goto, TypeOK
    <2>3. ch \in Challenges /\ challenges[ch] \in Challenge
      BY <2>1 DEF IInv, CallInv, Verifying, VerifyCalls, TypeOK
    <2>4. challenges'[ch] = challenge[r]
      BY <2>2, <2>3 DEF Commit, TypeOK
    <2>5. /\ challenge[r].attempts = challenges[ch].attempts + 1
          /\ challenges[ch].attempts < MaxAttempts
      BY <2>1 DEF IInv, RowInv, Verifying
    <2> QED BY <2>3, <2>4, <2>5, SettingsAssumption DEF Challenge
  <1>2. IInv /\ [Next]_vars => [CountsByOne]_vars
    BY <1>1
  <1> QED BY <1>2, InvariantHolds, PTL DEF Spec, WrongCodesAreCounted

-----------------------------------------------------------------------------
(***************************************************************************)
(* The refinement: a commit is a step of OtpAtomic, any other a stutter.   *)
(***************************************************************************)

\* A commit changes the account of its own challenge, and of no other.
LEMMA CommitChangesOne ==
    ASSUME IInv, NEW r \in Requests, Commit(r),
           NEW ch \in Challenges, ch = call[r].ch, challenge[r] \in Challenge
    PROVE  Book' = [Book EXCEPT ![ch] =
                      [email |-> challenge[r].email,
                       attempts |-> challenge[r].attempts,
                       consumed |-> challenge[r].consumed,
                       sessions |-> sessions'[ch]]]
  <1> TypeOK
    BY DEF IInv
  <1>1. challenges'[ch] = challenge[r] /\ challenges'[ch] # Absent
    BY SentinelAssumption DEF Commit, TypeOK
  <1>2. AccountOf(ch)' = [email |-> challenge[r].email,
                          attempts |-> challenge[r].attempts,
                          consumed |-> challenge[r].consumed,
                          sessions |-> sessions'[ch]]
    BY <1>1 DEF AccountOf
  <1>3. \A other \in Challenges \ {ch} : AccountOf(other)' = AccountOf(other)
    BY DEF Commit, AccountOf, TypeOK
  <1> QED BY <1>2, <1>3 DEF Book

\* A commit is one step of OtpAtomic.
LEMMA CommitIsAtomic ==
    ASSUME IInv, NEW r \in Requests, Commit(r)
    PROVE  Atomic!ANext
  <1> TypeOK
    BY DEF IInv
  <1>1. call[r].ch \in Challenges /\ challenge[r] \in Challenge
    BY DEF Commit, IInv, CallInv, Requesting, Verifying, RequestCalls, VerifyCalls
  <1>2. PICK ch \in Challenges : ch = call[r].ch
    BY <1>1
  <1> DEFINE row == challenges[ch]
             account == [email |-> challenge[r].email,
                         attempts |-> challenge[r].attempts,
                         consumed |-> challenge[r].consumed,
                         sessions |-> sessions'[ch]]
  <1>3. sessions'[ch] = IF pc[r] = "login" THEN sessions[ch] + 1 ELSE sessions[ch]
    BY <1>2 DEF Commit, TypeOK
  <1>4. Book[ch] = AccountOf(ch)
    BY DEF Book
  <1>5. Book' = [Book EXCEPT ![ch] = account]
    BY <1>1, <1>2, CommitChangesOne
  <1>6. CASE pc[r] = "store"
    <2>1. row = Absent /\ sessions[ch] = 0
      BY <1>2, <1>6 DEF IInv, IssuedInv, LoginsAreWhole, Requesting
    <2>2. UNCHANGED users
      BY <1>6 DEF Commit, IInv, EmailInv, LoggingIn
    <2>3. account = Atomic!NewAccount(challenge[r].email)
      BY <1>1, <1>3, <1>6, <2>1
         DEF IInv, FreshInv, Challenge, Atomic!NewAccount
    <2>4. Book[ch] = Absent /\ challenge[r].email \in Emails
      BY <1>1, <1>4, <2>1 DEF AccountOf, Challenge
    <2> HIDE DEF account
    <2>5. Atomic!Issue(ch, challenge[r].email)
      BY <1>5, <2>2, <2>3, <2>4 DEF Atomic!Issue
    <2> QED BY <1>1, <2>4, <2>5 DEF Atomic!ANext
  <1>7. CASE pc[r] \in {"count", "login"}
    <2>1. /\ row # Absent /\ row \in Challenge
          /\ ~ row.consumed /\ row.attempts < MaxAttempts
          /\ challenge[r].email = row.email
          /\ sessions[ch] \in Nat
      BY <1>1, <1>2, <1>7 DEF TypeOK, IInv, CallInv, RowInv, Verifying
    <2>2. Book[ch] = [email |-> row.email, attempts |-> row.attempts,
                      consumed |-> row.consumed, sessions |-> sessions[ch]]
      BY <1>4, <2>1 DEF AccountOf
    <2>3. Book[ch] \in Account
      BY <2>1, <2>2 DEF Account, Challenge
    <2>4. Atomic!Verifiable(ch)
      BY <2>1, <2>2, <2>3, SentinelAssumption DEF Atomic!Verifiable
    <2>5. CASE pc[r] = "count"
      <3>1. account = [Book[ch] EXCEPT !.attempts = @ + 1]
        <4>1. /\ challenge[r].attempts = row.attempts + 1
              /\ challenge[r].consumed = row.consumed
          BY <1>1, <1>2, <2>1, <2>5 DEF IInv, RowInv, Challenge
        <4> QED BY <1>3, <2>1, <2>2, <2>5, <4>1
      <3>2. UNCHANGED users
        BY <2>5 DEF Commit, IInv, EmailInv, LoggingIn
      <3> HIDE DEF account
      <3>3. Atomic!Miss(ch)
        BY <1>1, <1>5, <2>4, <3>1, <3>2 DEF Atomic!Miss, Book
      <3> QED BY <1>1, <3>3 DEF Atomic!ANext
    <2>6. CASE pc[r] = "login"
      <3>1. account = Atomic!SpentAccount(Book[ch])
        <4>1. challenge[r].attempts = row.attempts /\ challenge[r].consumed
          BY <1>2, <2>6 DEF IInv, RowInv, Verifying
        <4>2. challenge[r].consumed \in BOOLEAN
          BY <1>1 DEF Challenge
        <4>3. challenge[r].consumed = TRUE
          BY <4>1, <4>2, Zenon
        <4> QED BY <1>3, <2>1, <2>2, <2>6, <4>1, <4>3 DEF Atomic!SpentAccount
      <3>2. users' = users \cup {Book[ch].email}
        <4>1. \A e \in Emails : emailLock[e] = r => e = challenge[r].email
          BY DEF IInv, EmailInv
        <4>2. \/ challenge[r].email \in users
              \/ emailLock[challenge[r].email] = r
          BY <2>6 DEF IInv, EmailInv, LoggingIn
        <4>3. users' = users \cup { e \in Emails : emailLock[e] = r }
          BY DEF Commit
        <4>4. challenge[r].email \in Emails /\ Book[ch].email = challenge[r].email
          BY <1>1, <2>1, <2>2 DEF Challenge
        <4> QED BY <4>1, <4>2, <4>3, <4>4
      <3> HIDE DEF account
      <3>3. Atomic!Login(ch)
        BY <1>1, <1>5, <2>4, <3>1, <3>2 DEF Atomic!Login, Book
      <3> QED BY <1>1, <3>3 DEF Atomic!ANext
    <2> QED BY <1>7, <2>5, <2>6
  <1> QED BY <1>6, <1>7 DEF Commit

\* Any other step leaves what OtpAtomic sees as it is.
LEMMA StepIsAtomic ==
    IInv /\ [Next]_vars => [Atomic!ANext]_<<users, Book>>
  <1> SUFFICES ASSUME IInv, [Next]_vars
               PROVE  Atomic!ANext \/ UNCHANGED <<users, Book>>
    OBVIOUS
  <1> TypeOK
    BY DEF IInv
  <1>1. CASE \E r \in Requests : Commit(r)
    BY <1>1, CommitIsAtomic
  <1>2. CASE UNCHANGED store
    BY <1>2 DEF store, mail, Book, AccountOf
  <1>3. UNCHANGED store \/ \E r \in Requests : Commit(r)
    <2>1. Step
      BY NextSteps
    <2> QED BY <2>1
            DEF Step, vars, store, mail, Tick, Enter, Draw, InsertChallenge,
                Deliver, Drop, Refuse, Locked, FindUser, Registered, ConsumeChallenge,
                InsertSession, Forget
  <1> QED BY <1>1, <1>2, <1>3

\* Requests that verify challenges, however many at a time and wherever they
\* fail, do what OtpAtomic allows.
THEOREM OtpIsAtomic == Spec => ImplementsAtomicOtp
  <1>1. Init => Atomic!AInit
    BY DEF Init, Atomic!AInit, Book, AccountOf
  <1>2. [Atomic!ANext]_<<users, Book>> => [Atomic!ANext]_Atomic!avars
    BY DEF Atomic!avars
  <1> QED BY <1>1, <1>2, InvariantHolds, StepIsAtomic, PTL
          DEF Spec, ImplementsAtomicOtp, Atomic!ASpec

=============================================================================
