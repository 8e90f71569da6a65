--------------------------- MODULE NotebookAtomic ---------------------------
(***************************************************************************)
(* The notebook service that docs/persistence.md describes: every request  *)
(* takes effect at one instant between its arrival and its answer, on the  *)
(* current row.  A write may also fail with no effect, and a request may   *)
(* be forgotten (its client gone, the server restarted).                   *)
(***************************************************************************)
EXTENDS NotebookData

VARIABLES
    rows,       \* the notebooks
    phase,      \* per request: "idle", "running" or "done"
    call,       \* per request: its endpoint and arguments
    answer      \* per request: the status and the row it answers with

avars == <<rows, phase, call, answer>>

NoAnswer == [status |-> "none", row |-> Absent]

AInit ==
    /\ rows = [n \in Notebooks |-> Absent]
    /\ phase = [r \in Requests |-> "idle"]
    /\ call = [r \in Requests |-> None]
    /\ answer = [r \in Requests |-> NoAnswer]

\* The notebook, for a user who may see it (4, 9: owner-scoped access).
Owned(user, nb) ==
    IF rows[nb] # Absent /\ rows[nb].owner = user THEN rows[nb] ELSE Absent

\* A document whose id and title are those of the notebook (8.4).
Document(nb, title, body) == [id |-> nb, title |-> title, body |-> body]

Done(r, status, row) ==
    /\ phase' = [phase EXCEPT ![r] = "done"]
    /\ answer' = [answer EXCEPT ![r] = [status |-> status, row |-> row]]

\* A request is received; its effect comes later.
Accept(r, c) ==
    /\ phase[r] = "idle"
    /\ phase' = [phase EXCEPT ![r] = "running"]
    /\ call' = [call EXCEPT ![r] = c]
    /\ UNCHANGED <<rows, answer>>

\* A request that reads only, or is refused, on arrival.
AnswerAtOnce(r, c) ==
    LET row == Owned(c.user, c.nb) IN
    /\ phase[r] = "idle"
    /\ c.op # "create"
    /\ call' = [call EXCEPT ![r] = c]
    /\ \/ row = Absent /\ Done(r, "not_found", Absent)
       \/ row # Absent /\ c.op = "get" /\ Done(r, "ok", row)
       \/ /\ row # Absent
          /\ c.op = "sync"
          /\ c.base # row.revision
          /\ Done(r, "conflict", row)
    /\ UNCHANGED rows

\* 6.4: a notebook starts at revision 1, never synced.
ACreate(r) ==
    LET c   == call[r]
        row == [owner |-> c.user, title |-> c.title,
                snapshot |-> Document(c.nb, c.title, c.sent.body),
                revision |-> 1, synced |-> FALSE]
    IN  /\ c.op = "create"
        /\ rows[c.nb] = Absent
        /\ rows' = [rows EXCEPT ![c.nb] = row]
        /\ Done(r, "ok", row)

\* 8.4: the title changes, in both places, and nothing else.
ARename(r) ==
    LET c   == call[r]
        old == Owned(c.user, c.nb)
        row == [old EXCEPT
                   !.title = c.title,
                   !.snapshot = Document(c.nb, c.title, old.snapshot.body)]
    IN  /\ c.op = "rename"
        /\ old # Absent
        /\ rows' = [rows EXCEPT ![c.nb] = row]
        /\ Done(r, "ok", row)

\* 6.2: the base revision is the current one; the snapshot replaces it.
ASync(r) ==
    LET c   == call[r]
        old == Owned(c.user, c.nb)
        row == [owner |-> c.user, title |-> c.sent.title,
                snapshot |-> Document(c.nb, c.sent.title, c.sent.body),
                revision |-> c.base + 1, synced |-> TRUE]
    IN  /\ c.op = "sync"
        /\ old # Absent
        /\ old.revision = c.base
        /\ rows' = [rows EXCEPT ![c.nb] = row]
        /\ Done(r, "ok", row)

ADelete(r) ==
    LET c   == call[r]
        old == Owned(c.user, c.nb)
    IN  /\ c.op = "delete"
        /\ old # Absent
        /\ rows' = [rows EXCEPT ![c.nb] = Absent]
        /\ Done(r, "ok", old)

\* The one instant at which a request that was accepted takes effect.
Execute(r) ==
    /\ phase[r] = "running"
    /\ ACreate(r) \/ ARename(r) \/ ASync(r) \/ ADelete(r)
    /\ UNCHANGED call

\* An error answer promises that nothing was written.
AFail(r) ==
    /\ phase[r] = "running"
    /\ \E row \in Row : Done(r, "error", row)
    /\ UNCHANGED <<rows, call>>

\* Requests are over: answered, cancelled, or lost with the server.
AForget(rs) ==
    /\ phase' = [r \in Requests |-> IF r \in rs THEN "idle" ELSE phase[r]]
    /\ call' = [r \in Requests |-> IF r \in rs THEN None ELSE call[r]]
    /\ answer' = [r \in Requests |-> IF r \in rs THEN NoAnswer ELSE answer[r]]
    /\ UNCHANGED rows

ANext ==
    \/ \E r \in Requests : \/ \E c \in Calls : Accept(r, c) \/ AnswerAtOnce(r, c)
                           \/ Execute(r)
                           \/ AFail(r)
    \/ \E rs \in SUBSET Requests : AForget(rs)

ASpec == AInit /\ [][ANext]_avars

=============================================================================
