-------------------------- MODULE OtpCooldownProofs -------------------------
(***************************************************************************)
(* The cooldown of request_otp, which overlapping requests break, holds    *)
(* while the requests for an e-mail do not overlap: for any e-mails,       *)
(* challenges and requests, and any values of the settings.                *)
(*                                                                         *)
(* What a request found when it looked for a recent challenge stays true   *)
(* until it commits: nobody else brings a challenge of its e-mail, and     *)
(* those that are there keep their dates.                                  *)
(***************************************************************************)
EXTENDS OtpAuthProofs

\* A row at hand has the dates of the row that is, or will be, committed.
DatesInv ==
    \A r \in Requests :
        /\ pc[r] \in {"send", "store"} => challenge[r].created = call[r].at
        /\ pc[r] \in Verifying =>
              /\ challenge[r].created = challenges[call[r].ch].created
              /\ challenge[r].expires = challenges[call[r].ch].expires

\* No challenge is younger than its cooldown allows to a request under way.
CooldownInv ==
    \A r \in Requests :
        pc[r] \in Requesting =>
            \A ch \in Active(call[r].email) :
                challenges[ch].created < call[r].at - Cooldown

SpacingInv == IInv /\ DatesInv /\ CooldownInv /\ ActiveChallengesAreSpaced

\* The dates of a row at hand are those of the challenge it is about.
LEMMA DatesStep ==
  ASSUME IInv, DatesInv, Step
  PROVE  DatesInv'
<1> USE DEF IInv, TypeOK, CallInv, IssuedInv, LockInv, DatesInv, Requesting,
            Verifying, RequestCalls, VerifyCalls
<1>1. CASE UNCHANGED vars \/ Tick
  BY <1>1 DEF vars, Tick, store, mail, locks
<1>2. ASSUME NEW r \in Requests, NEW c \in Calls, Enter(r, c)
      PROVE  DatesInv'
  BY <1>2 DEF Enter, store, mail, locks
<1>3. ASSUME NEW r \in Requests, NEW c \in RequestCalls, Draw(r, c)
      PROVE  DatesInv'
  BY <1>3 DEF Draw, store, mail, locks
<1>4. ASSUME NEW r \in Requests, InsertChallenge(r)
      PROVE  DatesInv'
  <2>1. NewChallenge(call[r].email, call[r].at).created = call[r].at
    BY DEF NewChallenge
  <2>2. /\ UNCHANGED <<challenges, call>>
        /\ pc'[r] = "send" /\ challenge'[r].created = call[r].at
        /\ \A q \in Requests \ {r} : UNCHANGED <<pc[q], challenge[q]>>
    BY <1>4, <2>1 DEF InsertChallenge, Goto, store, mail
  <2> QED BY <2>2
<1>5. ASSUME NEW r \in Requests, Deliver(r)
      PROVE  DatesInv'
  BY <1>5 DEF Deliver, store, mail, locks
<1>6. ASSUME NEW r \in Requests, NEW res \in Statuses, Drop(r, res)
      PROVE  DatesInv'
  BY <1>6 DEF Drop, Refuse, Release, Goto, store, mail
<1>7. ASSUME NEW r \in Requests, Locked(r)
      PROVE  DatesInv'
  <2> DEFINE row == challenges[call[r].ch]
  <2>1. row \in Challenge
    BY <1>7 DEF Locked
  <2>2. /\ [row EXCEPT !.attempts = @ + 1].created = row.created
        /\ [row EXCEPT !.attempts = @ + 1].expires = row.expires
    BY <2>1 DEF Challenge
  <2>3. /\ UNCHANGED <<challenges, call>>
        /\ \A q \in Requests \ {r} : UNCHANGED <<pc[q], challenge[q]>>
        /\ \/ pc'[r] = "user" /\ challenge'[r] = row
           \/ /\ pc'[r] = "count"
              /\ challenge'[r] = [row EXCEPT !.attempts = @ + 1]
    BY <1>7 DEF Locked, store, mail
  <2>4. /\ pc'[r] \in {"user", "count"}
        /\ challenge'[r].created = row.created
        /\ challenge'[r].expires = row.expires
    BY <2>2, <2>3
  <2> QED BY <2>3, <2>4
<1>8. ASSUME NEW r \in Requests, FindUser(r) \/ InsertSession(r)
      PROVE  DatesInv'
  BY <1>8 DEF FindUser, InsertSession, Goto, store, mail, locks
<1>9. ASSUME NEW r \in Requests, Registered(r)
      PROVE  DatesInv'
  BY <1>9 DEF Registered, store, mail
<1>10. ASSUME NEW r \in Requests, ConsumeChallenge(r)
       PROVE  DatesInv'
  <2>1. /\ [challenge[r] EXCEPT !.consumed = TRUE].created = challenge[r].created
        /\ [challenge[r] EXCEPT !.consumed = TRUE].expires = challenge[r].expires
    BY <1>10 DEF ConsumeChallenge, Challenge
  <2>2. /\ UNCHANGED <<challenges, call>>
        /\ pc[r] = "consume" /\ pc'[r] = "session"
        /\ challenge'[r].created = challenge[r].created
        /\ challenge'[r].expires = challenge[r].expires
        /\ \A q \in Requests \ {r} : UNCHANGED <<pc[q], challenge[q]>>
    BY <1>10, <2>1 DEF ConsumeChallenge, Goto, store, mail
  <2> QED BY <2>2
<1>11. ASSUME NEW r \in Requests, Commit(r)
       PROVE  DatesInv'
  BY <1>11 DEF Commit, Release, Goto
<1>12. ASSUME NEW rs \in SUBSET Requests, Forget(rs)
       PROVE  DatesInv'
  BY <1>12 DEF Forget, store, mail
<1> QED BY <1>1, <1>2, <1>3, <1>4, <1>5, <1>6, <1>7, <1>8, <1>9, <1>10, <1>11,
        <1>12 DEF Step

\* A challenge that is active after a step was so before it, with the same
\* date, or a request for its e-mail has committed it.
LEMMA ActiveStep ==
  ASSUME IInv, DatesInv, Step, NEW e \in Emails, NEW ch \in Active(e)'
  PROVE  \/ ch \in Active(e) /\ challenges'[ch].created = challenges[ch].created
         \/ \E r \in Requests :
              /\ pc[r] = "store" /\ pc'[r] = "reply"
              /\ call[r].email = e /\ call[r].ch = ch
              /\ challenges'[ch].created = call[r].at
<1> TypeOK
  BY DEF IInv
<1>1. /\ ch \in Challenges /\ challenges'[ch] # Absent
      /\ challenges'[ch].email = e /\ ~ challenges'[ch].consumed
      /\ challenges'[ch].expires > now'
  BY DEF Active
<1>2. ASSUME UNCHANGED challenges, now' = now \/ Tick
      PROVE  ch \in Active(e) /\ challenges'[ch].created = challenges[ch].created
  <2>1. challenges[ch] \in Challenge
    BY <1>1, <1>2 DEF TypeOK
  <2>2. now \in Int /\ now' \in Int /\ now' >= now /\ challenges[ch].expires \in Int
    BY <1>2, <2>1 DEF Tick, TypeOK, Times, Challenge
  <2>3. challenges[ch].expires > now
    BY <1>1, <1>2, <2>2
  <2> QED BY <1>1, <1>2, <2>3 DEF Active
<1>3. ASSUME NEW r \in Requests, Commit(r)
      PROVE  \/ ch \in Active(e) /\ challenges'[ch].created = challenges[ch].created
             \/ /\ pc[r] = "store" /\ pc'[r] = "reply"
                /\ call[r].email = e /\ call[r].ch = ch
                /\ challenges'[ch].created = call[r].at
  <2>1. /\ pc[r] \in {"store", "count", "login"} /\ pc'[r] = "reply" /\ now' = now
        /\ challenges' = [challenges EXCEPT ![call[r].ch] = challenge[r]]
    BY <1>3 DEF Commit, Goto, TypeOK
  <2>2. CASE call[r].ch # ch
    <3>1. challenges'[ch] = challenges[ch]
      BY <1>1, <2>1, <2>2 DEF TypeOK
    <3> QED BY <1>1, <2>1, <3>1 DEF Active
  <2>3. CASE call[r].ch = ch
    <3>1. challenges'[ch] = challenge[r]
      BY <1>1, <2>1, <2>3 DEF TypeOK
    <3>2. CASE pc[r] = "store"
      BY <1>1, <2>1, <2>3, <3>1, <3>2 DEF IInv, FreshInv, DatesInv
    <3>3. CASE pc[r] \in {"count", "login"}
      <4>1. /\ challenges[ch] # Absent /\ ~ challenges[ch].consumed
            /\ challenge[r].email = challenges[ch].email
            /\ challenge[r].created = challenges[ch].created
            /\ challenge[r].expires = challenges[ch].expires
        BY <2>3, <3>3 DEF IInv, CallInv, RowInv, DatesInv, Verifying
      <4> QED BY <1>1, <2>1, <3>1, <4>1 DEF Active
    <3> QED BY <2>1, <3>2, <3>3
  <2> QED BY <2>2, <2>3
<1>4. \/ UNCHANGED challenges /\ (now' = now \/ Tick)
      \/ \E r \in Requests : Commit(r)
  BY DEF Step, vars, store, mail, Tick, Enter, Draw, InsertChallenge, Deliver, Drop,
         Refuse, Locked, FindUser, Registered, ConsumeChallenge, InsertSession,
         Forget
<1> QED BY <1>2, <1>3, <1>4

\* A request on its way to its commit was so before the step, or has just found
\* no recent challenge of its e-mail.
LEMMA RequestingStep ==
  ASSUME IInv, [Next]_vars, NEW r \in Requests, pc'[r] \in Requesting
  PROVE  \/ pc[r] \in Requesting /\ call'[r] = call[r]
         \/ /\ call'[r] \in RequestCalls /\ call'[r].at = now
            /\ RecentActive(call'[r].email) = {}
            /\ UNCHANGED <<now, challenges>>
<1> TypeOK
  BY DEF IInv
<1>1. CASE UNCHANGED vars
  BY <1>1 DEF vars
<1>2. ASSUME NEW q \in Requests, NEW e \in Emails, RequestOtp(q, e)
      PROVE  \/ pc[r] \in Requesting /\ call'[r] = call[r]
             \/ /\ call'[r] \in RequestCalls /\ call'[r].at = now
                /\ RecentActive(call'[r].email) = {}
                /\ UNCHANGED <<now, challenges>>
  <2>1. CASE r # q
    BY <1>2, <2>1 DEF RequestOtp, Open, Goto, TypeOK
  <2>2. CASE r = q
    <3>1. pc'[q] # "reply"
      BY <2>2 DEF Requesting
    <3>2. RecentActive(e) = {}
      BY <1>2, <3>1 DEF RequestOtp, Open, Goto, TypeOK
    <3>3. PICK ch \in Challenges \ issued :
            Open(q, [op |-> "request", email |-> e, ch |-> ch, at |-> now],
                 "insert", "none")
      BY <1>2, <3>2 DEF RequestOtp
    <3> DEFINE c == [op |-> "request", email |-> e, ch |-> ch, at |-> now]
    <3>4. c \in RequestCalls /\ c.at = now /\ c.email = e
      BY DEF RequestCalls, TypeOK
    <3>5. Open(q, c, "insert", "none")
      BY <3>3
    <3> HIDE DEF c
    <3>6. call'[r] = c
      BY <2>2, <3>5 DEF Open, TypeOK
    <3> QED BY <1>2, <3>2, <3>4, <3>6 DEF RequestOtp, store, mail
  <2> QED BY <2>1, <2>2
<1>3. CASE Tick
  BY <1>3 DEF Tick
<1>4. ASSUME NEW q \in Requests,
             \/ \E c \in VerifyCalls : VerifyOtp(q, c)
             \/ Proceed(q) \/ Wait(q) \/ Abort(q)
      PROVE  pc[r] \in Requesting /\ call'[r] = call[r]
  <2>1. ASSUME NEW c \in VerifyCalls, VerifyOtp(q, c)
        PROVE  pc[r] \in Requesting /\ call'[r] = call[r]
    BY <2>1 DEF VerifyOtp, Open, Goto, TypeOK, Requesting
  <2>2. CASE InsertChallenge(q) \/ SendOtp(q) \/ FindUser(q)
    BY <2>2 DEF InsertChallenge, SendOtp, FindUser, Refuse, Goto, TypeOK, Requesting
  <2>3. CASE ConsumeChallenge(q) \/ InsertSession(q) \/ Commit(q)
    BY <2>3 DEF ConsumeChallenge, InsertSession, Commit, Goto, TypeOK, Requesting
  <2>4. CASE Wait(q)
    BY <2>4 DEF Wait, LockChallenge, RegisterUser, Refuse, Goto, TypeOK, Requesting
  <2>5. CASE Reply(q) \/ Abort(q)
    BY <2>5 DEF Reply, Abort, Forget, TypeOK, Requesting
  <2> QED BY <1>4, <2>1, <2>2, <2>3, <2>4, <2>5 DEF Proceed
<1>5. CASE Crash
  BY <1>5 DEF Crash, Forget, TypeOK, Requesting
<1> QED BY <1>1, <1>2, <1>3, <1>4, <1>5 DEF Next

\* What a request found when it looked for recent challenges stays true: none
\* of its e-mail is added while it is under way.
LEMMA CooldownStep ==
  ASSUME SpacingInv, NoOverlap, [Next]_vars
  PROVE  CooldownInv'
<1> IInv /\ TypeOK
  BY DEF SpacingInv, IInv
<1>1. Step
  BY NextSteps
<1>2. IInv'
  BY InvStep
<1> SUFFICES ASSUME NEW r \in Requests, pc'[r] \in Requesting,
                    NEW e, e = call'[r].email, NEW ch \in Active(e)'
             PROVE  challenges'[ch].created < call'[r].at - Cooldown
  BY DEF CooldownInv, Active
<1>3. call'[r] \in RequestCalls /\ e \in Emails /\ call'[r].at \in Int
  BY <1>2 DEF IInv, CallInv, RequestCalls, Times
<1>4. CASE pc[r] \in Requesting /\ call'[r] = call[r]
  <2>1. CASE /\ ch \in Active(e)
             /\ challenges'[ch].created = challenges[ch].created
    BY <1>4, <2>1 DEF SpacingInv, CooldownInv
  <2>2. ASSUME NEW q \in Requests, pc[q] = "store", pc'[q] = "reply",
               call[q].email = e
        PROVE  FALSE
    BY <1>4, <2>2 DEF NoOverlap, Requesting
  <2> QED BY <1>1, <1>3, <2>1, <2>2, ActiveStep DEF SpacingInv
<1>5. CASE /\ call'[r].at = now
           /\ RecentActive(e) = {}
           /\ UNCHANGED <<now, challenges>>
  <2>1. ch \in Active(e) /\ challenges[ch] \in Challenge
    BY <1>5 DEF Active, TypeOK
  <2>2. ~ (challenges[ch].created >= now - Cooldown)
    BY <1>5, <2>1 DEF RecentActive
  <2>3. /\ challenges[ch].created \in Int /\ now \in Int /\ Cooldown \in Int
    BY <2>1, SettingsAssumption DEF TypeOK, Times, Challenge
  <2> QED BY <1>5, <2>2, <2>3
<1> QED BY <1>4, <1>5, RequestingStep

\* A challenge that is committed has its distance to all the others.
LEMMA SpacingStep ==
  ASSUME SpacingInv, NoOverlap, [Next]_vars
  PROVE  ActiveChallengesAreSpaced'
<1> IInv /\ TypeOK
  BY DEF SpacingInv, IInv
<1>1. Step
  BY NextSteps
<1>2. IInv'
  BY InvStep
<1> SUFFICES ASSUME NEW e \in Emails, NEW a \in Active(e)', NEW b \in Active(e)',
                    challenges'[a].created >= challenges'[b].created, a # b
             PROVE  challenges'[a].created - challenges'[b].created > Cooldown
  BY DEF ActiveChallengesAreSpaced
<1> DEFINE Old(ch) == ch \in Active(e) /\ challenges'[ch].created = challenges[ch].created
           New(ch, r) == /\ pc[r] = "store" /\ call[r].email = e /\ call[r].ch = ch
                         /\ challenges'[ch].created = call[r].at
<1>3. /\ Old(a) \/ \E r \in Requests : New(a, r)
      /\ Old(b) \/ \E r \in Requests : New(b, r)
  BY <1>1, ActiveStep DEF SpacingInv
<1>4. /\ challenges'[a].created \in Int /\ challenges'[b].created \in Int
      /\ Cooldown \in Int
  <2>1. TypeOK'
    BY <1>2 DEF IInv
  <2> QED BY <2>1, SettingsAssumption DEF Active, TypeOK, Challenge, Times
<1>5. ASSUME NEW r \in Requests, NEW new, NEW old, New(new, r), Old(old)
      PROVE  challenges'[old].created < challenges'[new].created - Cooldown
  BY <1>5 DEF SpacingInv, CooldownInv, Requesting
<1>6. CASE Old(a) /\ Old(b)
  BY <1>6 DEF SpacingInv, ActiveChallengesAreSpaced
<1>7. CASE \E r \in Requests : New(a, r) /\ Old(b)
  BY <1>4, <1>5, <1>7
<1>8. CASE \E r \in Requests : New(b, r) /\ Old(a)
  BY <1>4, <1>5, <1>8
<1>9. ASSUME NEW r \in Requests, NEW q \in Requests, New(a, r), New(b, q)
      PROVE  FALSE
  BY <1>9 DEF NoOverlap, Requesting
<1> HIDE DEF Old, New
<1> QED BY <1>3, <1>6, <1>7, <1>8, <1>9

\* Every step that leaves no two requests for one e-mail under way preserves
\* the invariant.
LEMMA SpacingInvStep ==
  ASSUME SpacingInv, NoOverlap, [Next]_vars
  PROVE  SpacingInv'
<1>1. Step
  BY NextSteps DEF SpacingInv, IInv
<1>2. DatesInv'
  BY <1>1, DatesStep DEF SpacingInv
<1> QED BY <1>2, InvStep, CooldownStep, SpacingStep DEF SpacingInv

\* While the requests for an e-mail do not overlap, two challenges of it that are
\* both active are more than the cooldown of request_otp apart, however they are
\* verified and whatever fails.
THEOREM CooldownHolds == Spec => CooldownWithoutOverlap
<1>1. Init => SpacingInv
  <2>1. Init => DatesInv /\ CooldownInv /\ ActiveChallengesAreSpaced
    BY DEF Init, DatesInv, CooldownInv, Requesting, Verifying,
           ActiveChallengesAreSpaced, Active
  <2> QED BY <2>1, InitInv DEF SpacingInv
<1>2. SpacingInv /\ NoOverlap /\ [Next]_vars => SpacingInv'
  BY SpacingInvStep
<1>3. SpacingInv => ActiveChallengesAreSpaced
  BY DEF SpacingInv
<1> QED BY <1>1, <1>2, <1>3, PTL DEF Spec, CooldownWithoutOverlap

=============================================================================
