----------------------------- MODULE GoogleAtomic ---------------------------
(***************************************************************************)
(* What login with Google promises (docs/auth.md, 7.1 and 7.2), without    *)
(* transactions, locks or requests: a state is offered, spent once and     *)
(* logs in once; an account of Google's is linked once and for good, and   *)
(* with the link its user is there.  GoogleOAuth implements it.  A state   *)
(* that expires is one that no step is taken with any more.                *)
(***************************************************************************)
CONSTANTS Nonces, Subjects, Emails

VARIABLES
    users,  \* the e-mails with a user
    byOtp,  \* those of them that came by one-time password
    owner,  \* per subject: the user it is linked to, as a set
    state   \* per nonce: "unknown", "open", "spent" or "used"

AInit ==
    /\ users = {}
    /\ byOtp = {}
    /\ owner = [s \in Subjects |-> {}]
    /\ state = [n \in Nonces |-> "unknown"]

\* A state comes one stage further.
Advance(n, from, to) ==
    /\ state[n] = from
    /\ state' = [state EXCEPT ![n] = to]

Offer(n) == Advance(n, "unknown", "open")  /\ UNCHANGED <<users, byOtp, owner>>
Spend(n) == Advance(n, "open", "spent")    /\ UNCHANGED <<users, byOtp, owner>>

\* A session is opened, for a user whom a link leads to.
LogIn(n) ==
    /\ \E s \in Subjects : owner[s] # {}
    /\ Advance(n, "spent", "used")
    /\ UNCHANGED <<users, byOtp, owner>>

\* Subject s is linked to the user of e, who is there or comes with the link,
\* on the word of a callback that has spent its state.
LinkUser(s, e) ==
    /\ \E n \in Nonces : state[n] = "spent"
    /\ owner[s] = {}
    /\ owner' = [owner EXCEPT ![s] = {e}]
    /\ users' = users \cup {e}
    /\ UNCHANGED <<byOtp, state>>

\* A user comes by one-time password.
Register(e) ==
    /\ e \notin users
    /\ users' = users \cup {e}
    /\ byOtp' = byOtp \cup {e}
    /\ UNCHANGED <<owner, state>>

ANext ==
    \/ \E n \in Nonces : Offer(n) \/ Spend(n) \/ LogIn(n)
    \/ \E s \in Subjects, e \in Emails : LinkUser(s, e)
    \/ \E e \in Emails : Register(e)

avars == <<users, byOtp, owner, state>>

ASpec == AInit /\ [][ANext]_avars

=============================================================================
