------------------------------ MODULE OtpAtomic -----------------------------
(***************************************************************************)
(* What login by one-time password promises (docs/auth.md, 5.1 and 5.2),   *)
(* without transactions, locks or requests: a challenge allows so many     *)
(* wrong codes and one right one, each taken in one step, and the right    *)
(* one leaves a user, a spent challenge and one session.  OtpAuth          *)
(* implements it.  A challenge that expires is one that no step is taken   *)
(* with any more.                                                          *)
(***************************************************************************)
EXTENDS Integers

CONSTANTS Emails, Challenges, MaxAttempts, Absent

VARIABLES
    users,  \* the e-mails with a user
    book    \* per challenge: its account, or Absent

NewAccount(e) == [email |-> e, attempts |-> 0, consumed |-> FALSE, sessions |-> 0]

SpentAccount(a) == [email |-> a.email, attempts |-> a.attempts,
                    consumed |-> TRUE, sessions |-> a.sessions + 1]

AInit ==
    /\ users = {}
    /\ book = [ch \in Challenges |-> Absent]

\* A challenge is sent to e.
Issue(ch, e) ==
    /\ book[ch] = Absent
    /\ book' = [book EXCEPT ![ch] = NewAccount(e)]
    /\ UNCHANGED users

Verifiable(ch) ==
    /\ book[ch] # Absent
    /\ ~ book[ch].consumed
    /\ book[ch].attempts < MaxAttempts

\* A wrong code.
Miss(ch) ==
    /\ Verifiable(ch)
    /\ book' = [book EXCEPT ![ch].attempts = @ + 1]
    /\ UNCHANGED users

\* The right one.
Login(ch) ==
    /\ Verifiable(ch)
    /\ book' = [book EXCEPT ![ch] = SpentAccount(@)]
    /\ users' = users \cup {book[ch].email}

ANext ==
    \E ch \in Challenges : \/ \E e \in Emails : Issue(ch, e)
                           \/ Miss(ch)
                           \/ Login(ch)

avars == <<users, book>>

ASpec == AInit /\ [][ANext]_avars

=============================================================================
