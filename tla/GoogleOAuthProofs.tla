-------------------------- MODULE GoogleOAuthProofs -------------------------
(***************************************************************************)
(* Theorems about GoogleOAuth, for any nonces, subjects, e-mails and       *)
(* requests: IInv of that module is inductive, and the safety properties   *)
(* are conjuncts of it.  There is one lemma for each kind of step.         *)
(***************************************************************************)
EXTENDS GoogleOAuth, TLAPS

\* A step that keeps the links keeps what they lead to.
LEMMA LinkedUsersKept ==
  ASSUME links' = links
  PROVE  \A s : LinkedUsers(s)' = LinkedUsers(s)
BY DEF LinkedUsers

\* Nothing is stored, and no request is under way.
LEMMA InitInvariant == Init => IInv
BY DEF Init, IInv, TypeOK, NonceInv, StateInv, IdentityInv, UserInv, LinkInv,
       LinkingInv, OneLoginPerState, LoginIsLinked, NoStrandedUser,
       ConflictHasACause, Results, Spending, Linking

-----------------------------------------------------------------------------
\* A start or a callback arrives.
LEMMA ArrivalKeeps ==
  ASSUME IInv, NEW r \in Requests, NEW n \in Nonces, Start(r, n) \/ Callback(r, n)
  PROVE  IInv'
<1>1. TypeOK'
  BY DEF IInv, Start, Callback, Open, Goto, TypeOK, StateInv, IdentityInv,
         Results, Spending, Linking, Link, store, states
<1>2. StateInv' /\ OneLoginPerState'
  BY DEF IInv, Start, Callback, Open, Goto, StateInv, TypeOK,
         OneLoginPerState, Spending, Linking, store, states
<1>3. IdentityInv'
  BY DEF IInv, Start, Callback, Open, Goto, TypeOK, IdentityInv, Spending,
         Linking, states, store
<1>4. UserInv'
  BY DEF IInv, Start, Callback, Open, Goto, TypeOK, UserInv, IdentityInv,
         Spending, Linking, store
<1>5. LinkInv' /\ NoStrandedUser'
  BY DEF IInv, Start, Callback, Open, Goto, TypeOK, UserInv, LinkInv,
         NoStrandedUser, store
<1>6. LinkingInv' /\ LoginIsLinked'
  BY DEF IInv, Start, Callback, Open, Goto, TypeOK, LinkedUsers, LinkingInv,
         LoginIsLinked, IdentityInv, Spending, Linking, Identities, store
<1>7. NonceInv'
  BY DEF IInv, TypeOK, NonceInv, StateInv, Start, Callback, Open, Goto, states
<1>8. ConflictHasACause'
  <2>1. \A t : LinkedUsers(t)' = LinkedUsers(t)
    BY LinkedUsersKept DEF Start, Callback, Open, store
  <2>2. /\ UNCHANGED <<users, identity, user>>
        /\ \A q \in Requests \ {r} : pc'[q] = pc[q] /\ result'[q] = result[q]
        /\ result'[r] # "conflict"
    BY DEF IInv, TypeOK, Start, Callback, Open, Goto, store
  <2> QED BY <2>1, <2>2 DEF IInv, ConflictHasACause
<1> QED BY <1>1, <1>2, <1>3, <1>4, <1>5, <1>6, <1>7, <1>8 DEF IInv

\* A start commits the row of its nonce.
LEMMA CommitStartKeeps ==
  ASSUME IInv, NEW r \in Requests, CommitStart(r)
  PROVE  IInv'
<1>1. TypeOK'
  BY DEF IInv, CommitStart, Answer, Goto, TypeOK, StateInv, IdentityInv,
         Results, Spending, Linking, Link, store, states
<1>2. StateInv' /\ OneLoginPerState'
  BY DEF IInv, CommitStart, Answer, Goto, StateInv, TypeOK,
         OneLoginPerState, Spending, Linking, store, states
<1>3. IdentityInv'
  BY DEF IInv, CommitStart, Answer, Goto, TypeOK, IdentityInv, Spending,
         Linking, states, store
<1>4. UserInv'
  BY DEF IInv, CommitStart, Answer, Goto, TypeOK, UserInv, IdentityInv,
         Spending, Linking, store
<1>5. LinkInv' /\ NoStrandedUser'
  BY DEF IInv, CommitStart, Answer, Goto, TypeOK, UserInv, LinkInv,
         NoStrandedUser, store
<1>6. LinkingInv' /\ LoginIsLinked'
  BY DEF IInv, CommitStart, Answer, Goto, TypeOK, LinkedUsers, LinkingInv,
         LoginIsLinked, IdentityInv, Spending, Linking, Identities, store
<1>7. NonceInv'
  BY DEF IInv, TypeOK, NonceInv, StateInv, CommitStart, Answer, Goto, states
<1>8. ConflictHasACause'
  BY DEF IInv, TypeOK, ConflictHasACause, LinkedUsers, CommitStart, Answer,
         Goto, store
<1> QED BY <1>1, <1>2, <1>3, <1>4, <1>5, <1>6, <1>7, <1>8 DEF IInv

\* A callback gets the row lock of its state, and finds it spent or not.
LEMMA LockStateKeeps ==
  ASSUME IInv, NEW r \in Requests, LockState(r)
  PROVE  IInv'
<1>1. TypeOK'
  BY DEF IInv, LockState, StateFree, Answer, Goto, TypeOK, StateInv,
         IdentityInv, Results, Spending, Linking, Link, store, states
<1>2. StateInv' /\ OneLoginPerState'
  BY DEF IInv, LockState, StateFree, Answer, Goto, StateInv, TypeOK,
         OneLoginPerState, Spending, Linking, store, states
<1>3. IdentityInv'
  BY DEF IInv, LockState, StateFree, Answer, Goto, TypeOK, IdentityInv,
         Spending, Linking, states, store
<1>4. UserInv'
  BY DEF IInv, LockState, StateFree, Answer, Goto, TypeOK, UserInv,
         IdentityInv, Spending, Linking, store
<1>5. LinkInv' /\ NoStrandedUser'
  BY DEF IInv, LockState, StateFree, Answer, Goto, TypeOK, UserInv, LinkInv,
         NoStrandedUser, store
<1>6. LinkingInv' /\ LoginIsLinked'
  BY DEF IInv, LockState, StateFree, Answer, Goto, TypeOK, LinkedUsers,
         LinkingInv, LoginIsLinked, IdentityInv, Spending, Linking,
         Identities, store
<1>7. NonceInv'
  BY DEF IInv, TypeOK, NonceInv, StateInv, LockState, Answer, Goto, states
<1>8. ConflictHasACause'
  BY DEF IInv, TypeOK, ConflictHasACause, LinkedUsers, LockState, Answer,
         Goto, store
<1> QED BY <1>1, <1>2, <1>3, <1>4, <1>5, <1>6, <1>7, <1>8 DEF IInv

\* A callback commits that its state is spent.
LEMMA CommitStateKeeps ==
  ASSUME IInv, NEW r \in Requests, CommitState(r)
  PROVE  IInv'
<1>1. TypeOK'
  BY DEF IInv, CommitState, Answer, Goto, TypeOK, StateInv, IdentityInv,
         Results, Spending, Linking, Link, store, states
<1>2. StateInv' /\ OneLoginPerState'
  BY DEF IInv, CommitState, Answer, Goto, StateInv, TypeOK,
         OneLoginPerState, Spending, Linking, store, states
<1>3. IdentityInv'
  BY DEF IInv, CommitState, Answer, Goto, TypeOK, IdentityInv, Spending,
         Linking, states, store
<1>4. UserInv'
  BY DEF IInv, CommitState, Answer, Goto, TypeOK, UserInv, IdentityInv,
         Spending, Linking, store
<1>5. LinkInv' /\ NoStrandedUser'
  BY DEF IInv, CommitState, Answer, Goto, TypeOK, UserInv, LinkInv,
         NoStrandedUser, store
<1>6. LinkingInv' /\ LoginIsLinked'
  BY DEF IInv, CommitState, Answer, Goto, TypeOK, LinkedUsers, LinkingInv,
         LoginIsLinked, IdentityInv, Spending, Linking, Identities, store
<1>7. NonceInv'
  BY DEF IInv, TypeOK, NonceInv, StateInv, CommitState, StateFree, Answer,
         Goto, states
<1>8. ConflictHasACause'
  BY DEF IInv, TypeOK, ConflictHasACause, LinkedUsers, CommitState, Answer,
         Goto, store
<1> QED BY <1>1, <1>2, <1>3, <1>4, <1>5, <1>6, <1>7, <1>8 DEF IInv

\* Google answers, or does not.
LEMMA ExchangeKeeps ==
  ASSUME IInv, NEW r \in Requests, Exchange(r)
  PROVE  IInv'
<1>1. TypeOK'
  BY DEF IInv, Exchange, Answer, Goto, TypeOK, StateInv, IdentityInv,
         Results, Spending, Linking, Link, store, states
<1>2. StateInv' /\ OneLoginPerState'
  BY DEF IInv, Exchange, Answer, Goto, StateInv, TypeOK, OneLoginPerState,
         Spending, Linking, store, states
<1>3. IdentityInv'
  BY DEF IInv, Exchange, Answer, Goto, TypeOK, IdentityInv, Spending,
         Linking, states, store
<1>4. UserInv'
  BY DEF IInv, Exchange, Answer, Goto, TypeOK, UserInv, IdentityInv,
         Spending, Linking, store
<1>5. LinkInv' /\ NoStrandedUser'
  BY DEF IInv, Exchange, Answer, Goto, TypeOK, UserInv, LinkInv,
         NoStrandedUser, store
<1>6. LinkingInv' /\ LoginIsLinked'
  BY DEF IInv, Exchange, Answer, Goto, TypeOK, LinkedUsers, LinkingInv,
         LoginIsLinked, IdentityInv, Spending, Linking, Identities, store
<1>7. NonceInv'
  BY DEF IInv, TypeOK, NonceInv, StateInv, Exchange, Answer, Goto, states
<1>8. ConflictHasACause'
  BY DEF IInv, TypeOK, ConflictHasACause, LinkedUsers, Exchange, Answer, Goto,
         store
<1> QED BY <1>1, <1>2, <1>3, <1>4, <1>5, <1>6, <1>7, <1>8 DEF IInv

\* A link is looked up; without one, the e-mail has to be verified.
LEMMA FindLinkKeeps ==
  ASSUME IInv, NEW r \in Requests, FindLink(r)
  PROVE  IInv'
<1> DEFINE s == identity[r].subject
<1>1. /\ pc[r] = "find"
      /\ identity[r] \in Identities
      /\ UNCHANGED <<states, store, nonce, identity>>
  BY DEF IInv, IdentityInv, FindLink
<1>2. /\ user' \in [Requests -> Emails \cup {None}]
      /\ pc' = [pc EXCEPT ![r] = pc'[r]]
      /\ result' \in [Requests -> Results]
      /\ newUser' \in {newUser, newUser \ {r}}
      /\ \A q \in Requests \ {r} : user'[q] = user[q] /\ result'[q] = result[q]
      /\ \/ pc'[r] = "session" /\ user'[r] \in LinkedUsers(s)
         \/ pc'[r] = "lookup" /\ user'[r] \in Emails
         \/ pc'[r] = "reply" /\ result'[r] = "unverified"
  <2>1. CASE LinkedUsers(s) # {}
    <3>1. PICK e \in LinkedUsers(s) : user' = [user EXCEPT ![r] = e]
      BY <2>1 DEF FindLink
    <3>2. e \in Emails
      BY DEF LinkedUsers
    <3> QED BY <2>1, <3>1, <3>2 DEF IInv, TypeOK, FindLink, Goto
  <2>2. CASE LinkedUsers(s) = {}
    BY <1>1, <2>2 DEF IInv, TypeOK, FindLink, Goto, Answer, Identities, Results
  <2> QED BY <2>1, <2>2
<1>3. \A t : LinkedUsers(t)' = LinkedUsers(t)
  BY <1>1, LinkedUsersKept DEF store
<1>4. TypeOK'
  BY <1>1, <1>2 DEF IInv, TypeOK, states, store, Spending, Linking
<1>5. StateInv'
  BY <1>1, <1>2 DEF IInv, TypeOK, StateInv, states, store, Spending, Linking
<1>6. IdentityInv'
  BY <1>1, <1>2 DEF IInv, TypeOK, IdentityInv, LinkedUsers, Linking
<1>7. UserInv'
  BY <1>1, <1>2 DEF IInv, TypeOK, UserInv, store
<1>8. LinkInv' /\ LinkingInv'
  <2>1. user'[r] \in LinkedUsers(s) => [subject |-> s, email |-> user'[r]] \in links
    BY DEF LinkedUsers
  <2>2. \A q \in Requests \ {r} : pc'[q] = pc[q] /\ user'[q] = user[q]
    BY <1>2 DEF IInv, TypeOK
  <2>3. pc'[r] # "store"
    BY <1>2
  <2>4. LinkingInv'
    BY <1>1, <1>2, <1>3, <2>1, <2>2, <2>3 DEF IInv, LinkingInv, store
  <2> QED BY <1>1, <2>4 DEF IInv, LinkInv, store
<1>9. LoginIsLinked'
  BY <1>1, <1>2, <1>3 DEF IInv, TypeOK, LoginIsLinked, store
<1>10. OneLoginPerState' /\ NoStrandedUser'
  BY <1>1 DEF IInv, OneLoginPerState, NoStrandedUser, states, store
<1>11. NonceInv'
  BY <1>1, <1>2 DEF IInv, TypeOK, NonceInv, states
<1>12. ConflictHasACause'
  BY <1>1, <1>2, <1>3 DEF IInv, TypeOK, ConflictHasACause, store
<1> QED BY <1>4, <1>5, <1>6, <1>7, <1>8, <1>9, <1>10, <1>11, <1>12 DEF IInv

\* The user of the e-mail is looked up.
LEMMA FindUserKeeps ==
  ASSUME IInv, NEW r \in Requests, FindUser(r)
  PROVE  IInv'
<1>1. TypeOK'
  BY DEF IInv, FindUser, Goto, TypeOK, StateInv, IdentityInv, Results,
         Spending, Linking, Link, store, states
<1>2. StateInv' /\ OneLoginPerState'
  BY DEF IInv, FindUser, Goto, StateInv, TypeOK, OneLoginPerState, Spending,
         Linking, store, states
<1>3. IdentityInv'
  BY DEF IInv, FindUser, Goto, TypeOK, IdentityInv, Spending, Linking,
         states, store
<1>4. UserInv'
  BY DEF IInv, FindUser, Goto, TypeOK, UserInv, IdentityInv, Spending,
         Linking, store
<1>5. LinkInv' /\ NoStrandedUser'
  BY DEF IInv, FindUser, Goto, TypeOK, UserInv, LinkInv, NoStrandedUser,
         store
<1>6. LinkingInv' /\ LoginIsLinked'
  BY DEF IInv, FindUser, Goto, TypeOK, LinkedUsers, LinkingInv,
         LoginIsLinked, IdentityInv, Spending, Linking, Identities, store
<1>7. NonceInv'
  BY DEF IInv, TypeOK, NonceInv, StateInv, FindUser, Goto, states
<1>8. ConflictHasACause'
  BY DEF IInv, TypeOK, ConflictHasACause, LinkedUsers, FindUser, Goto, store
<1> QED BY <1>1, <1>2, <1>3, <1>4, <1>5, <1>6, <1>7, <1>8 DEF IInv

\* The user of the e-mail is inserted, or was by another.
LEMMA RegisterUserKeeps ==
  ASSUME IInv, NEW r \in Requests, RegisterUser(r)
  PROVE  IInv'
<1>1. TypeOK'
  BY DEF IInv, RegisterUser, EmailFree, Answer, Goto, TypeOK, StateInv,
         IdentityInv, Results, Spending, Linking, Link, store, states
<1>2. StateInv' /\ OneLoginPerState'
  BY DEF IInv, RegisterUser, EmailFree, Answer, Goto, StateInv, TypeOK,
         OneLoginPerState, Spending, Linking, store, states
<1>3. IdentityInv'
  BY DEF IInv, RegisterUser, EmailFree, Answer, Goto, TypeOK, IdentityInv,
         Spending, Linking, states, store
<1>4. UserInv'
  BY DEF IInv, RegisterUser, EmailFree, Answer, Goto, TypeOK, UserInv,
         IdentityInv, Spending, Linking, store
<1>5. LinkInv' /\ NoStrandedUser'
  BY DEF IInv, RegisterUser, EmailFree, Answer, Goto, TypeOK, UserInv,
         LinkInv, NoStrandedUser, store
<1>6. LinkingInv' /\ LoginIsLinked'
  BY DEF IInv, RegisterUser, EmailFree, Answer, Goto, TypeOK, LinkedUsers,
         LinkingInv, LoginIsLinked, IdentityInv, Spending, Linking,
         Identities, store
<1>7. NonceInv'
  BY DEF IInv, TypeOK, NonceInv, StateInv, RegisterUser, Answer, Goto, states
<1>8. ConflictHasACause'
  BY DEF IInv, TypeOK, ConflictHasACause, LinkedUsers, RegisterUser, Answer,
         Goto, store
<1> QED BY <1>1, <1>2, <1>3, <1>4, <1>5, <1>6, <1>7, <1>8 DEF IInv

\* The link is inserted, or was by another.
LEMMA InsertLinkKeeps ==
  ASSUME IInv, NEW r \in Requests, InsertLink(r)
  PROVE  IInv'
<1> DEFINE s == identity[r].subject
<1>1. /\ pc[r] = "link"
      /\ identity[r] \in Identities
      /\ UNCHANGED <<states, store, nonce, identity, user>>
      /\ pc' = [pc EXCEPT ![r] = pc'[r]]
      /\ \/ pc'[r] = "store" /\ LinkedUsers(s) = {} /\ UNCHANGED <<newUser, result>>
         \/ pc'[r] = "reply" /\ result' = [result EXCEPT ![r] = "conflict"]
  BY DEF IInv, TypeOK, IdentityInv, InsertLink, Goto, Answer, Linking
<1>2. \A t : LinkedUsers(t)' = LinkedUsers(t)
  BY <1>1, LinkedUsersKept DEF store
<1>3. LinkInv' /\ LinkingInv'
  <2>1. \A q \in Requests \ {r} : pc'[q] = pc[q]
    BY <1>1 DEF IInv, TypeOK
  <2>2. \A q \in Requests : ~ (pc[q] = "store" /\ identity[q].subject = s)
    BY DEF InsertLink, SubjectFree
  <2>3. LinkingInv'
    BY <1>1, <1>2, <2>1, <2>2 DEF IInv, LinkingInv, store
  <2> QED BY <1>1, <2>3 DEF IInv, LinkInv, store
<1>4. LoginIsLinked'
  BY <1>1, <1>2 DEF IInv, TypeOK, LoginIsLinked, store
<1>5. TypeOK'
  BY DEF IInv, InsertLink, SubjectFree, Answer, Goto, TypeOK, StateInv,
         IdentityInv, Results, Spending, Linking, Link, store, states
<1>6. StateInv' /\ OneLoginPerState'
  BY DEF IInv, InsertLink, SubjectFree, Answer, Goto, StateInv, TypeOK,
         OneLoginPerState, Spending, Linking, store, states
<1>7. IdentityInv'
  BY DEF IInv, InsertLink, SubjectFree, Answer, Goto, TypeOK, IdentityInv,
         Spending, Linking, states, store
<1>8. UserInv'
  BY DEF IInv, InsertLink, SubjectFree, Answer, Goto, TypeOK, UserInv,
         IdentityInv, Spending, Linking, store
<1>9. NoStrandedUser'
  BY DEF IInv, InsertLink, NoStrandedUser, store
<1>10. NonceInv'
  BY DEF IInv, TypeOK, NonceInv, StateInv, InsertLink, Answer, Goto, states
<1>11. ConflictHasACause'
  BY DEF IInv, TypeOK, ConflictHasACause, LinkedUsers, InsertLink, Answer,
         Goto, store
<1> QED BY <1>3, <1>4, <1>5, <1>6, <1>7, <1>8, <1>9, <1>10, <1>11 DEF IInv

\* The new user and the link are committed.
LEMMA CommitLinkKeeps ==
  ASSUME IInv, NEW r \in Requests, CommitLink(r)
  PROVE  IInv'
<1> DEFINE s == identity[r].subject
           link == [subject |-> s, email |-> user[r]]
<1>1. /\ pc[r] = "store"
      /\ identity[r] \in Identities
      /\ user[r] \in Emails
      /\ link \in Link
      /\ links' = links \cup {link}
      /\ users' \in {users, users \cup {user[r]}}
      /\ pc' = [pc EXCEPT ![r] = "session"]
      /\ UNCHANGED <<states, byOtp, sessions, nonce, identity, user, result>>
      /\ newUser' = newUser \ {r}
  BY DEF IInv, IdentityInv, CommitLink, Goto, Linking, Identities, Link
<1>2. TypeOK'
  BY <1>1 DEF IInv, TypeOK, states, Spending
<1>3. LinkedUsers(s) = {}
  BY <1>1 DEF IInv, LinkingInv
<1>4. \A t : t # s => LinkedUsers(t)' = LinkedUsers(t)
  BY <1>1 DEF LinkedUsers
<1>5. ASSUME NEW q \in Requests, pc'[q] = "reply", result'[q] = "ok"
      PROVE  LinkedUsers(identity[q].subject)' = {user[q]} /\ user[q] \in users'
  <2>1. /\ pc[q] = "reply" /\ result[q] = "ok"
        /\ LinkedUsers(identity[q].subject) = {user[q]}
        /\ user[q] \in users
    BY <1>1, <1>5 DEF IInv, TypeOK, LoginIsLinked
  <2> QED BY <1>1, <1>3, <1>4, <2>1
<1>6. LoginIsLinked'
  BY <1>1, <1>5 DEF LoginIsLinked
<1>7. StateInv' /\ OneLoginPerState'
  BY DEF IInv, CommitLink, Goto, StateInv, TypeOK, OneLoginPerState,
         Spending, Linking, store, states
<1>8. IdentityInv'
  BY DEF IInv, CommitLink, Goto, TypeOK, IdentityInv, Spending, Linking,
         states, store
<1>9. UserInv'
  BY DEF IInv, CommitLink, Goto, TypeOK, UserInv, IdentityInv, Spending,
         Linking, store
<1>10. LinkInv' /\ LinkingInv'
  BY DEF IInv, TypeOK, CommitLink, Goto, LinkInv, LinkingInv, LinkedUsers,
         UserInv,
         IdentityInv, Linking, Link, Identities
<1>11. NoStrandedUser'
  <2>1. link \in links' /\ link.email = user[r]
    BY <1>1
  <2> QED BY <1>1, <2>1 DEF IInv, NoStrandedUser
<1>12. NonceInv'
  BY DEF IInv, TypeOK, NonceInv, StateInv, CommitLink, Goto, states
<1>13. ConflictHasACause'
  BY DEF IInv, TypeOK, ConflictHasACause, LinkedUsers, CommitLink, Goto, store
<1> QED BY <1>2, <1>6, <1>7, <1>8, <1>9, <1>10, <1>11, <1>12, <1>13 DEF IInv

\* A callback opens its session.
LEMMA OpenSessionKeeps ==
  ASSUME IInv, NEW r \in Requests, OpenSession(r)
  PROVE  IInv'
<1> DEFINE s == identity[r].subject
<1>1. /\ pc[r] = "session"
      /\ UNCHANGED <<links, users, identity, user>>
      /\ pc' = [pc EXCEPT ![r] = "reply"]
      /\ result' = [result EXCEPT ![r] = "ok"]
  BY DEF OpenSession, Goto, Answer
<1>2. \A t : LinkedUsers(t)' = LinkedUsers(t)
  BY <1>1, LinkedUsersKept
<1>3. /\ user[r] \in Emails
      /\ [subject |-> s, email |-> user[r]] \in links
      /\ user[r] \in users
  BY <1>1 DEF IInv, IdentityInv, LinkInv, LinkingInv
<1>4. LinkedUsers(s) = {user[r]}
  BY <1>3 DEF IInv, LinkInv, LinkedUsers
<1>5. LoginIsLinked'
  BY <1>1, <1>2, <1>3, <1>4 DEF IInv, TypeOK, LoginIsLinked
<1>6. TypeOK'
  BY DEF IInv, OpenSession, Answer, Goto, TypeOK, StateInv, IdentityInv,
         Results, Spending, Linking, Link, store, states
<1>7. StateInv' /\ OneLoginPerState'
  BY DEF IInv, OpenSession, Answer, Goto, StateInv, TypeOK,
         OneLoginPerState, Spending, Linking, store, states
<1>8. IdentityInv'
  BY DEF IInv, OpenSession, Answer, Goto, TypeOK, IdentityInv, Spending,
         Linking, states, store
<1>9. UserInv'
  BY DEF IInv, OpenSession, Answer, Goto, TypeOK, UserInv, IdentityInv,
         Spending, Linking, store
<1>10. LinkInv' /\ NoStrandedUser'
  BY DEF IInv, OpenSession, Answer, Goto, TypeOK, UserInv, LinkInv,
         NoStrandedUser, store
<1>11. LinkingInv'
  BY DEF IInv, TypeOK, LinkingInv, OpenSession, Answer, Goto, LinkedUsers
<1>12. NonceInv'
  BY DEF IInv, TypeOK, NonceInv, StateInv, OpenSession, Answer, Goto, states
<1>13. ConflictHasACause'
  BY DEF IInv, TypeOK, ConflictHasACause, LinkedUsers, OpenSession, Answer,
         Goto, store
<1> QED BY <1>5, <1>6, <1>7, <1>8, <1>9, <1>10, <1>11, <1>12, <1>13 DEF IInv

\* Requests are over, cancelled or killed.
LEMMA ForgetKeeps ==
  ASSUME IInv, NEW rs \in SUBSET Requests, Forget(rs)
  PROVE  IInv'
<1>1. TypeOK'
  BY DEF IInv, Forget, TypeOK, StateInv, IdentityInv, Results, Spending,
         Linking, Link, store, states
<1>2. StateInv' /\ OneLoginPerState'
  BY DEF IInv, Forget, StateInv, TypeOK, OneLoginPerState, Spending,
         Linking, store, states
<1>3. IdentityInv'
  BY DEF IInv, Forget, TypeOK, IdentityInv, Spending, Linking, states, store
<1>4. UserInv'
  BY DEF IInv, Forget, TypeOK, UserInv, IdentityInv, Spending, Linking,
         store
<1>5. LinkInv' /\ NoStrandedUser'
  BY DEF IInv, Forget, TypeOK, UserInv, LinkInv, NoStrandedUser, store
<1>6. LinkingInv' /\ LoginIsLinked'
  BY DEF IInv, Forget, TypeOK, LinkedUsers, LinkingInv, LoginIsLinked,
         IdentityInv, Spending, Linking, Identities, store
<1>7. NonceInv'
  BY DEF IInv, TypeOK, NonceInv, StateInv, Forget, states
<1>8. ConflictHasACause'
  BY DEF IInv, TypeOK, ConflictHasACause, LinkedUsers, Forget, store
<1> QED BY <1>1, <1>2, <1>3, <1>4, <1>5, <1>6, <1>7, <1>8 DEF IInv

\* A state expires, or a login by OTP registers a user.
LEMMA OutsideKeeps ==
  ASSUME IInv, (\E n \in Nonces : Expire(n)) \/ (\E e \in Emails : OtpRegisters(e))
  PROVE  IInv'
<1>1. TypeOK'
  BY DEF IInv, Expire, OtpRegisters, EmailFree, TypeOK, StateInv,
         IdentityInv, Results, Spending, Linking, Link, store, states
<1>2. StateInv' /\ OneLoginPerState'
  BY DEF IInv, Expire, OtpRegisters, EmailFree, StateInv, TypeOK,
         OneLoginPerState, Spending, Linking, store, states
<1>3. IdentityInv'
  BY DEF IInv, Expire, OtpRegisters, EmailFree, TypeOK, IdentityInv,
         Spending, Linking, states, store
<1>4. UserInv'
  BY DEF IInv, Expire, OtpRegisters, EmailFree, TypeOK, UserInv,
         IdentityInv, Spending, Linking, store
<1>5. LinkInv' /\ NoStrandedUser'
  BY DEF IInv, Expire, OtpRegisters, EmailFree, TypeOK, UserInv, LinkInv,
         NoStrandedUser, store
<1>6. LinkingInv' /\ LoginIsLinked'
  BY DEF IInv, Expire, OtpRegisters, EmailFree, TypeOK, LinkedUsers,
         LinkingInv, LoginIsLinked, IdentityInv, Spending, Linking,
         Identities, store
<1>7. NonceInv'
  BY DEF IInv, TypeOK, NonceInv, StateInv, Expire, OtpRegisters, states
<1>8. ConflictHasACause'
  BY DEF IInv, TypeOK, ConflictHasACause, LinkedUsers, Expire, OtpRegisters,
         store
<1> QED BY <1>1, <1>2, <1>3, <1>4, <1>5, <1>6, <1>7, <1>8 DEF IInv

-----------------------------------------------------------------------------
\* Each action, and a step that changes nothing, keeps the invariant.
LEMMA NextInvariant == IInv /\ [Next]_vars => IInv'
<1> SUFFICES ASSUME IInv, [Next]_vars
             PROVE  IInv'
  OBVIOUS
<1>1. CASE UNCHANGED vars
  BY <1>1 DEF IInv, TypeOK, NonceInv, StateInv, IdentityInv, UserInv, LinkInv,
              LinkingInv, LinkedUsers, OneLoginPerState, LoginIsLinked,
              NoStrandedUser, ConflictHasACause, vars, states, store
<1>2. ASSUME NEW r \in Requests, NEW n \in Nonces, Start(r, n) \/ Callback(r, n)
      PROVE  IInv'
  BY <1>2, ArrivalKeeps
<1>3. ASSUME NEW r \in Requests, Proceed(r)
      PROVE  IInv'
  <2>1. CASE Reply(r)
    BY <2>1, ForgetKeeps DEF Reply
  <2> QED BY <1>3, <2>1, CommitStartKeeps, CommitStateKeeps, ExchangeKeeps,
             FindLinkKeeps, FindUserKeeps, CommitLinkKeeps, OpenSessionKeeps
             DEF Proceed
<1>4. ASSUME NEW r \in Requests, Wait(r)
      PROVE  IInv'
  BY <1>4, LockStateKeeps, RegisterUserKeeps, InsertLinkKeeps DEF Wait
<1>5. ASSUME NEW r \in Requests, Abort(r)
      PROVE  IInv'
  BY <1>5, ForgetKeeps DEF Abort
<1>6. CASE Crash
  BY <1>6, ForgetKeeps DEF Crash
<1>7. CASE (\E n \in Nonces : Expire(n)) \/ (\E e \in Emails : OtpRegisters(e))
  BY <1>7, OutsideKeeps
<1> QED BY <1>1, <1>2, <1>3, <1>4, <1>5, <1>6, <1>7 DEF Next

\* The invariant holds in every behaviour.
THEOREM InvariantHolds == Spec => []IInv
BY InitInvariant, NextInvariant, PTL DEF Spec

\* Whatever callbacks carry the same state, and whatever fails or restarts
\* between spending it and the session, it opens at most one session.
THEOREM OneLogin == Spec => []OneLoginPerState
<1>1. IInv => OneLoginPerState
  BY DEF IInv
<1> QED BY <1>1, InvariantHolds, PTL

\* A callback that succeeds is logged in as the one user its subject is
\* linked to, however many callbacks link subjects and users at the time.
THEOREM LinkedLogin == Spec => []LoginIsLinked
<1>1. IInv => LoginIsLinked
  BY DEF IInv
<1> QED BY <1>1, InvariantHolds, PTL

\* No failure or restart leaves a user that nobody can log in as again.
THEOREM NobodyStranded == Spec => []NoStrandedUser
<1>1. IInv => NoStrandedUser
  BY DEF IInv
<1> QED BY <1>1, InvariantHolds, PTL

\* Who is answered a conflict has, by then and for good, a link or a user to be
\* linked to.
THEOREM ConflictsHaveCauses == Spec => []ConflictHasACause
<1>1. IInv => ConflictHasACause
  BY DEF IInv
<1> QED BY <1>1, InvariantHolds, PTL

-----------------------------------------------------------------------------
(***************************************************************************)
(* The refinement of GoogleAtomic.  Six actions change what it sees; each  *)
(* has a lemma that names the atomic step it is.                           *)
(***************************************************************************)

\* A step that keeps what the atomic login sees.
LEMMA UnseenStep ==
  ASSUME UNCHANGED <<stored, consumed, store>>
  PROVE  UNCHANGED Atomic!avars
<1>1. \A s : LinkedUsers(s)' = LinkedUsers(s)
  BY LinkedUsersKept DEF store
<1>2. \A n : Stage(n)' = Stage(n)
  BY DEF Stage, store
<1> QED BY <1>1, <1>2 DEF Atomic!avars, store

\* A step that advances one state and keeps users and links.
LEMMA StageStep ==
  ASSUME NEW n \in Nonces, NEW from, NEW to,
         UNCHANGED <<users, byOtp, links>>,
         Stage(n) = from, Stage(n)' = to,
         \A m \in Nonces \ {n} : Stage(m)' = Stage(m)
  PROVE  /\ Atomic!Advance(n, from, to)
         /\ UNCHANGED <<users, byOtp, [s \in Subjects |-> LinkedUsers(s)]>>
<1>1. \A s : LinkedUsers(s)' = LinkedUsers(s)
  BY LinkedUsersKept
<1>2. [m \in Nonces |-> Stage(m)]' =
        [[m \in Nonces |-> Stage(m)] EXCEPT ![n] = to]
  OBVIOUS
<1> QED BY <1>1, <1>2 DEF Atomic!Advance

\* A start offers its state.
LEMMA StartOffers ==
  ASSUME IInv, NEW r \in Requests, CommitStart(r), NEW n, n = nonce[r]
  PROVE  Atomic!Offer(n)
<1>1. /\ n \in Nonces /\ n \notin stored /\ n \notin consumed /\ ~ (sessions[n] > 0)
      /\ stored' = stored \cup {n}
      /\ UNCHANGED <<consumed, store>>
  BY DEF IInv, TypeOK, NonceInv, StateInv, OneLoginPerState, CommitStart
<1>2. Stage(n) = "unknown" /\ Stage(n)' = "open"
  BY <1>1 DEF Stage, store
<1>3. \A m \in Nonces \ {n} : Stage(m)' = Stage(m)
  BY <1>1 DEF Stage, store
<1>4. Atomic!Offer(n)
  BY <1>1, <1>2, <1>3, StageStep DEF Atomic!Offer, store
<1> QED BY <1>4

\* A callback spends its state.
LEMMA CallbackSpends ==
  ASSUME IInv, NEW r \in Requests, CommitState(r), NEW n, n = nonce[r]
  PROVE  Atomic!Spend(n)
<1>1. /\ n \in Nonces /\ n \in stored /\ n \notin consumed /\ ~ (sessions[n] > 0)
      /\ consumed' = consumed \cup {n}
      /\ UNCHANGED <<stored, store>>
  BY DEF IInv, TypeOK, NonceInv, StateInv, OneLoginPerState, CommitState
<1>2. Stage(n) = "open" /\ Stage(n)' = "spent"
  BY <1>1 DEF Stage, store
<1>3. \A m \in Nonces \ {n} : Stage(m)' = Stage(m)
  BY <1>1 DEF Stage, store
<1>4. Atomic!Spend(n)
  BY <1>1, <1>2, <1>3, StageStep DEF Atomic!Spend, store
<1> QED BY <1>4

\* A callback logs in.
LEMMA CallbackLogsIn ==
  ASSUME IInv, NEW r \in Requests, OpenSession(r), NEW n, n = nonce[r]
  PROVE  Atomic!LogIn(n)
<1> DEFINE s == identity[r].subject
<1>1. /\ pc[r] = "session" /\ n \in Nonces /\ n \in consumed /\ sessions[n] = 0
      /\ sessions' = [sessions EXCEPT ![n] = @ + 1]
      /\ UNCHANGED <<stored, consumed, users, byOtp, links>>
  BY DEF IInv, TypeOK, StateInv, Spending, OpenSession, states
<1>2. s \in Subjects /\ user[r] \in Emails /\ user[r] \in LinkedUsers(s)
  BY <1>1 DEF IInv, IdentityInv, LinkingInv, Identities, LinkedUsers
<1>3. sessions \in [Nonces -> Nat]
  BY DEF IInv, TypeOK
<1>4. Stage(n) = "spent" /\ Stage(n)' = "used"
  BY <1>1, <1>3 DEF Stage
<1>5. \A m \in Nonces \ {n} : Stage(m)' = Stage(m)
  BY <1>1, <1>3 DEF Stage
<1>6. Atomic!LogIn(n)
  BY <1>1, <1>2, <1>4, <1>5, StageStep DEF Atomic!LogIn
<1> QED BY <1>6

\* A callback links its subject, and its user comes with the link or is there.
LEMMA CallbackLinks ==
  ASSUME IInv, NEW r \in Requests, CommitLink(r),
         NEW s, s = identity[r].subject, NEW e, e = user[r]
  PROVE  Atomic!LinkUser(s, e)
<1> DEFINE link == [subject |-> s, email |-> e]
<1>1. /\ pc[r] = "store" /\ s \in Subjects /\ e \in Emails
      /\ links' = links \cup {link}
      /\ users' = IF r \in newUser THEN users \cup {e} ELSE users
      /\ UNCHANGED <<stored, consumed, byOtp, sessions>>
  BY DEF IInv, IdentityInv, Identities, Linking, CommitLink, states
<1>2. LinkedUsers(s) = {}
  BY <1>1 DEF IInv, LinkingInv
<1>3. users' = users \cup {e}
  BY <1>1 DEF IInv, UserInv
<1>4. /\ nonce[r] \in Nonces /\ nonce[r] \in consumed /\ sessions[nonce[r]] = 0
  BY <1>1 DEF IInv, StateInv, Spending, Linking
<1>5. Stage(nonce[r]) = "spent"
  BY <1>4 DEF Stage
<1>6. LinkedUsers(s)' = {e}
  BY <1>1, <1>2 DEF LinkedUsers
<1>7. \A t : t # s => LinkedUsers(t)' = LinkedUsers(t)
  BY <1>1 DEF LinkedUsers
<1>8. [t \in Subjects |-> LinkedUsers(t)]' =
        [[t \in Subjects |-> LinkedUsers(t)] EXCEPT ![s] = {e}]
  BY <1>6, <1>7
<1>9. [n \in Nonces |-> Stage(n)]' = [n \in Nonces |-> Stage(n)]
  BY <1>1 DEF Stage
<1> QED BY <1>1, <1>2, <1>3, <1>4, <1>5, <1>8, <1>9 DEF Atomic!LinkUser

\* A login by OTP registers a user.
LEMMA OtpIsRegister ==
  ASSUME NEW e \in Emails, OtpRegisters(e)
  PROVE  Atomic!Register(e)
<1>1. /\ e \notin users /\ users' = users \cup {e} /\ byOtp' = byOtp \cup {e}
      /\ UNCHANGED <<stored, consumed, links, sessions>>
  BY DEF OtpRegisters, states
<1>2. \A s : LinkedUsers(s)' = LinkedUsers(s)
  BY <1>1, LinkedUsersKept
<1>3. \A n : Stage(n)' = Stage(n)
  BY <1>1 DEF Stage
<1> QED BY <1>1, <1>2, <1>3 DEF Atomic!Register

\* Every step is one of those, or is not seen.
LEMMA AtomicStep ==
  ASSUME IInv, [Next]_vars
  PROVE  [Atomic!ANext]_Atomic!avars
<1>1. CASE UNCHANGED vars
  BY <1>1, UnseenStep DEF vars, states
<1>2. ASSUME NEW r \in Requests, CommitStart(r) \/ CommitState(r) \/ OpenSession(r)
      PROVE  Atomic!ANext
  <2>1. nonce[r] \in Nonces
    BY <1>2 DEF IInv, StateInv, Spending, CommitStart, CommitState, OpenSession
  <2> QED BY <1>2, <2>1, StartOffers, CallbackSpends, CallbackLogsIn DEF Atomic!ANext
<1>3. ASSUME NEW r \in Requests, CommitLink(r)
      PROVE  Atomic!ANext
  <2>1. identity[r].subject \in Subjects /\ user[r] \in Emails
    BY <1>3 DEF IInv, IdentityInv, Identities, Linking, CommitLink
  <2> QED BY <1>3, <2>1, CallbackLinks DEF Atomic!ANext
<1>4. ASSUME NEW e \in Emails, OtpRegisters(e)
      PROVE  Atomic!ANext
  BY <1>4, OtpIsRegister DEF Atomic!ANext
<1>5. ASSUME NEW r \in Requests,
             \/ \E n \in Nonces : Start(r, n) \/ Callback(r, n)
             \/ Exchange(r) \/ FindLink(r) \/ FindUser(r) \/ Reply(r) \/ Wait(r)
             \/ Abort(r)
      PROVE  UNCHANGED Atomic!avars
  <2>1. UNCHANGED <<stored, consumed, store>>
    BY <1>5 DEF Start, Callback, Open, Exchange, FindLink, FindUser, Reply, Abort,
                Forget, Wait, LockState, RegisterUser, InsertLink, states
  <2> QED BY <2>1, UnseenStep
<1>6. CASE Crash \/ \E n \in Nonces : Expire(n)
  <2>1. UNCHANGED <<stored, consumed, store>>
    BY <1>6 DEF Crash, Forget, Expire, states
  <2> QED BY <2>1, UnseenStep
<1> QED BY <1>1, <1>2, <1>3, <1>4, <1>5, <1>6 DEF Next, Proceed

\* Login with Google acts in atomic steps: however callbacks and starts overlap
\* and fail, a state goes its stages in order, a subject is linked once, to a
\* user who is there or comes with the link.
THEOREM GoogleIsAtomic == Spec => ImplementsAtomicGoogle
<1>1. Init => Atomic!AInit
  BY DEF Init, Atomic!AInit, LinkedUsers, Stage
<1>2. IInv /\ [Next]_vars => [Atomic!ANext]_Atomic!avars
  BY AtomicStep
<1> QED BY <1>1, <1>2, InvariantHolds, PTL
        DEF Spec, ImplementsAtomicGoogle, Atomic!ASpec

=============================================================================
