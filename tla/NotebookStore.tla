---------------------------- MODULE NotebookStore ---------------------------
(***************************************************************************)
(* The notebook endpoints over PostgreSQL (READ COMMITTED), as the code of *)
(* src/app/features/notebooks runs them: every request has its own         *)
(* AsyncSession (db/session.py), every `await` on the database is a point  *)
(* where other requests run, and a request that does not reach its commit  *)
(* is rolled back when its session closes.                                 *)
(*                                                                         *)
(* One request is: load the row without a lock and decide (Lookup, or      *)
(* Insert for a create); write it (Flush), which waits for the row lock    *)
(* and sends only the columns whose value differs from the one loaded;     *)
(* read it back (Refresh); Commit; Reply.  The row read back is what the   *)
(* client is answered with.                                                *)
(***************************************************************************)
EXTENDS NotebookData

VARIABLES
    rows,       \* the committed rows of the table `notebooks`
    issued,     \* the uuids that uuid4 has drawn
    lock,       \* per row: the request whose transaction holds the row lock
    pc,         \* per request: where it waits
    call,       \* per request: its endpoint and arguments
    notebook,   \* per request: the ORM object in its session
    pending,    \* per request: the uncommitted version of the row it wrote
    result      \* per request: the status it will answer

vars == <<rows, issued, lock, pc, call, notebook, pending, result>>

Statuses == {"none", "ok", "not_found", "conflict", "error"}

\* A request in one of these states has an open transaction past its checks.
InTransaction(r) == pc[r] \in {"flush", "refresh", "commit"}

TypeOK ==
    /\ rows \in [Notebooks -> Row \cup {Absent}]
    /\ issued \in SUBSET Notebooks
    /\ lock \in [Notebooks -> Requests \cup {None}]
    /\ pc \in [Requests -> {"idle", "flush", "refresh", "commit", "reply"}]
    /\ call \in [Requests -> Calls \cup {None}]
    /\ notebook \in [Requests -> Row \cup {Absent}]
    /\ pending \in [Requests -> Row \cup {Absent, None}]
    /\ result \in [Requests -> Statuses]

Init ==
    /\ rows = [n \in Notebooks |-> Absent]
    /\ issued = {}
    /\ lock = [n \in Notebooks |-> None]
    /\ pc = [r \in Requests |-> "idle"]
    /\ call = [r \in Requests |-> None]
    /\ notebook = [r \in Requests |-> Absent]
    /\ pending = [r \in Requests |-> None]
    /\ result = [r \in Requests |-> "none"]

-----------------------------------------------------------------------------
\* Mutant: the owner is not checked.
GetAny(user, nb) == rows[nb]

\* NotebookRepository.get_owned: session.get, then the owner check.
GetOwned(user, nb) ==
    IF rows[nb] # Absent /\ rows[nb].owner = user THEN rows[nb] ELSE Absent

\* A request has arrived and its first statement has returned `row`; it goes
\* on to `next`, or answers `res` at once.
Open(r, c, row, next, res) ==
    /\ pc[r] = "idle"
    /\ pc' = [pc EXCEPT ![r] = next]
    /\ call' = [call EXCEPT ![r] = c]
    /\ notebook' = [notebook EXCEPT ![r] = row]
    /\ result' = [result EXCEPT ![r] = res]

\* The transaction ends, with or without its write, and its lock is freed.
Release(r) ==
    /\ lock' = [n \in Notebooks |-> IF lock[n] = r THEN None ELSE lock[n]]
    /\ pending' = [pending EXCEPT ![r] = None]

\* POST /notebooks: INSERT flushed and read back; nobody else sees the row.
Insert(r, c) ==
    /\ c.nb \notin issued
    /\ issued' = issued \cup {c.nb}
    /\ Open(r, c, Inserted(c), "flush", "none")
    /\ lock' = [lock EXCEPT ![c.nb] = r]
    /\ pending' = [pending EXCEPT ![r] = Inserted(c)]
    /\ UNCHANGED rows

\* GET /notebooks/{id}, and PATCH without a title.
Get(r, c) ==
    /\ LET row == GetOwned(c.user, c.nb) IN
       Open(r, c, row, "reply", IF row = Absent THEN "not_found" ELSE "ok")
    /\ UNCHANGED <<rows, issued, lock, pending>>

\* PATCH with a title, and DELETE: the row has to be the user's.
LookupOwned(r, c) ==
    /\ LET row == GetOwned(c.user, c.nb) IN
       IF row = Absent THEN Open(r, c, row, "reply", "not_found")
                       ELSE Open(r, c, row, "flush", "none")
    /\ UNCHANGED <<rows, issued, lock, pending>>

\* Mutant: base_revision is not compared.
LookupUnchecked(r, c) ==
    /\ LET row == GetOwned(c.user, c.nb) IN
       IF row = Absent THEN Open(r, c, row, "reply", "not_found")
                       ELSE Open(r, c, row, "flush", "none")
    /\ UNCHANGED <<rows, issued, lock, pending>>

\* POST /notebooks/{id}/sync: the row, and the optimistic revision check.
LookupSync(r, c) ==
    /\ LET row == GetOwned(c.user, c.nb) IN
       IF row = Absent THEN Open(r, c, row, "reply", "not_found")
       ELSE IF c.base # row.revision THEN Open(r, c, row, "reply", "conflict")
       ELSE Open(r, c, row, "flush", "none")
    /\ UNCHANGED <<rows, issued, lock, pending>>

-----------------------------------------------------------------------------
\* An exception leaves the handler: rollback, then a 500 answer.
Fail(r) ==
    /\ pc' = [pc EXCEPT ![r] = "reply"]
    /\ result' = [result EXCEPT ![r] = "error"]
    /\ Release(r)
    /\ UNCHANGED <<rows, issued, call, notebook>>

\* The row as the transaction of r sees it.
View(r) == IF pending[r] # None THEN pending[r] ELSE rows[call[r].nb]

\* Mutant: writers of one row do not wait for each other.
CanLockAlways(r, nb) == TRUE

\* Mutant: a transaction waits for its own row lock, too.
CanLockOnce(r, nb) == lock[nb] = None

\* A row lock is granted when nobody else holds it.
CanLock(r, nb) == lock[nb] \in {None, r}

\* Mutant: the object is merged, all its columns are written.
UpdateAll(current, old, new, stamped) == new

\* Mutant: last_synced_at is written by every UPDATE.
UpdateStamp(current, old, new, stamped) ==
    [current EXCEPT !.title = new.title,
                    !.snapshot = new.snapshot,
                    !.revision = IF new.revision = old.revision THEN @
                                 ELSE new.revision,
                    !.synced = new.synced]

\* Mutant: SET revision = revision + 1, on the row as it now is.
UpdateIncrement(current, old, new, stamped) ==
    [new EXCEPT !.revision = current.revision + (new.revision - old.revision),
                !.synced = stamped \/ current.synced]

\* UPDATE ... SET the columns of `new` that differ from those of `old`, on
\* the current version of the row.  last_synced_at is a new instant on every
\* sync, so it always differs.
UpdateColumns(current, old, new, stamped) ==
    [current EXCEPT
        !.title    = IF new.title = old.title THEN @ ELSE new.title,
        !.snapshot = IF new.snapshot = old.snapshot THEN @ ELSE new.snapshot,
        !.revision = IF new.revision = old.revision THEN @ ELSE new.revision,
        !.synced   = IF stamped THEN new.synced ELSE @]

\* NotebookRepository.update up to its flush.  Nothing assigned differs: no
\* statement, no lock.  The row is gone: StaleDataError.  The revision does
\* not fit the column: numeric value out of range.
FlushUpdate(r) ==
    LET c       == call[r]
        old     == notebook[r]
        new     == Assigned(c, old)
    IN
    /\ pc[r] = "flush"
    /\ c.op \in {"create", "rename", "sync"}
    /\ \/ /\ new = old
          /\ pc' = [pc EXCEPT ![r] = "refresh"]
          /\ UNCHANGED <<rows, issued, lock, call, notebook, pending, result>>
       \/ /\ new # old
          /\ new.revision > MaxRevision
          /\ Fail(r)
       \/ /\ new # old
          /\ new.revision <= MaxRevision
          /\ CanLock(r, c.nb)
          /\ View(r) = Absent
          /\ Fail(r)
       \/ /\ new # old
          /\ new.revision <= MaxRevision
          /\ CanLock(r, c.nb)
          /\ View(r) # Absent
          /\ lock' = [lock EXCEPT ![c.nb] = r]
          /\ pending' = [pending EXCEPT ![r] =
                            UpdateColumns(View(r), old, new, c.op = "sync")]
          /\ notebook' = [notebook EXCEPT ![r] = new]
          /\ pc' = [pc EXCEPT ![r] = "refresh"]
          /\ UNCHANGED <<rows, issued, call, result>>

\* NotebookRepository.delete.  A DELETE that matches no row only warns, and
\* the request goes on to its commit.
FlushDelete(r) ==
    /\ pc[r] = "flush"
    /\ call[r].op = "delete"
    /\ CanLock(r, call[r].nb)
    /\ pc' = [pc EXCEPT ![r] = "commit"]
    /\ IF rows[call[r].nb] = Absent
       THEN UNCHANGED <<lock, pending>>
       ELSE /\ lock' = [lock EXCEPT ![call[r].nb] = r]
            /\ pending' = [pending EXCEPT ![r] = Absent]
    /\ UNCHANGED <<rows, issued, call, notebook, result>>

Flush(r) == FlushUpdate(r) \/ FlushDelete(r)

\* Mutant: the response is built from the object as it was assigned.
RefreshSkipped(r) ==
    /\ pc[r] = "refresh"
    /\ pc' = [pc EXCEPT ![r] = "commit"]
    /\ UNCHANGED <<rows, issued, lock, call, notebook, pending, result>>

\* session.refresh: SELECT the row again, in the same transaction.  The
\* response is built from it.  A row that vanished is an error.
Refresh(r) ==
    /\ pc[r] = "refresh"
    /\ \/ /\ View(r) # Absent
          /\ notebook' = [notebook EXCEPT ![r] = View(r)]
          /\ pc' = [pc EXCEPT ![r] = "commit"]
          /\ UNCHANGED <<rows, issued, lock, call, pending, result>>
       \/ /\ View(r) = Absent
          /\ Fail(r)

Commit(r) ==
    /\ pc[r] = "commit"
    /\ rows' = IF pending[r] = None THEN rows
               ELSE [rows EXCEPT ![call[r].nb] = pending[r]]
    /\ Release(r)
    /\ pc' = [pc EXCEPT ![r] = "reply"]
    /\ result' = [result EXCEPT ![r] = "ok"]
    /\ UNCHANGED <<issued, call, notebook>>

\* The slots in `rs` forget their requests, transactions rolled back.
Forget(rs) ==
    /\ pc' = [r \in Requests |-> IF r \in rs THEN "idle" ELSE pc[r]]
    /\ call' = [r \in Requests |-> IF r \in rs THEN None ELSE call[r]]
    /\ notebook' = [r \in Requests |-> IF r \in rs THEN Absent ELSE notebook[r]]
    /\ result' = [r \in Requests |-> IF r \in rs THEN "none" ELSE result[r]]
    /\ pending' = [r \in Requests |-> IF r \in rs THEN None ELSE pending[r]]
    /\ lock' = [n \in Notebooks |-> IF lock[n] \in rs THEN None ELSE lock[n]]
    /\ UNCHANGED <<rows, issued>>

\* The answer is sent; whether it arrives is not the server's to know.
Reply(r) == pc[r] = "reply" /\ Forget({r})

\* The client disconnects, the database refuses a statement or its connection
\* is lost: the handler is cancelled at an await and its session closed.
Abort(r) == InTransaction(r) /\ Forget({r})

\* The single server process is killed: every transaction is rolled back.
Crash == (\E r \in Requests : pc[r] # "idle") /\ Forget(Requests)

Arrive(r) ==
    \/ \E c \in CreateCalls : Insert(r, c)
    \/ \E c \in GetCalls : Get(r, c)
    \/ \E c \in RenameCalls \cup DeleteCalls : LookupOwned(r, c)
    \/ \E c \in SyncCalls : LookupSync(r, c)

Next ==
    \/ \E r \in Requests : \/ Arrive(r)
                           \/ Flush(r)
                           \/ Refresh(r)
                           \/ Commit(r)
                           \/ Reply(r)
                           \/ Abort(r)
    \/ Crash

\* The event loop resumes every coroutine whose database call returned, and
\* PostgreSQL grants a row lock to its waiters in the order they queued, so a
\* Flush that is again and again possible happens.
Fairness ==
    \A r \in Requests : /\ WF_vars(Refresh(r))
                        /\ WF_vars(Commit(r))
                        /\ WF_vars(Reply(r))
                        /\ SF_vars(Flush(r))

Spec == Init /\ [][Next]_vars /\ Fairness

-----------------------------------------------------------------------------
(***************************************************************************)
(* What holds whatever the interleaving.                                   *)
(***************************************************************************)

\* A committed row carries its own id inside its snapshot: the row a create
\* inserts with the client's id is never committed before align_snapshot has
\* rewritten it, and no rename or sync brings another id back.
SnapshotIdMatchesRow ==
    \A n \in Notebooks : rows[n] # Absent => rows[n].snapshot.id = n

\* revision = 1 exactly as long as last_synced_at is null (docstring of
\* NotebookService): a column-wise UPDATE of one request never separates the
\* two columns that a sync of another request wrote together.
SyncedIffAdvanced ==
    \A n \in Notebooks :
        rows[n] # Absent => (rows[n].synced <=> rows[n].revision > 1)

\* A sync that succeeds answers the revision after the one it was based on,
\* which is the client's next base_revision, whatever was committed between
\* its check and its write.
SyncAnswersNextRevision ==
    \A r \in Requests :
        (pc[r] = "reply" /\ result[r] = "ok" /\ call[r].op = "sync")
            => notebook[r].revision = call[r].base + 1

\* When a DELETE is answered with success the notebook is gone, even if it
\* raced with renames and syncs that had loaded the row.
DeletedIsGone ==
    \A r \in Requests :
        (pc[r] = "reply" /\ result[r] = "ok" /\ call[r].op = "delete")
            => rows[call[r].nb] = Absent

\* The step in which the transaction of r commits.
Commits(r) == pc[r] = "commit" /\ pc'[r] = "reply" /\ result'[r] = "ok"

\* A row changes or disappears only when a request of its owner commits, and
\* never passes to another owner: the check of get_owned still holds when the
\* write it allowed takes effect.
ChangesAreTheOwners ==
    \A n \in Notebooks :
        (rows[n] # Absent /\ rows'[n] # rows[n]) =>
            /\ \E r \in Requests : /\ Commits(r)
                                   /\ call[r].nb = n
                                   /\ call[r].user = rows[n].owner
            /\ rows'[n] # Absent => rows'[n].owner = rows[n].owner

OnlyTheOwnerWrites == [][ChangesAreTheOwners]_vars

\* A row comes into being only as the commit of the create that drew its id:
\* no rename or sync that loaded a row brings it back once it was deleted.
NewRowsAreCreated ==
    \A n \in Notebooks :
        (rows[n] = Absent /\ rows'[n] # Absent) =>
            \E r \in Requests : /\ Commits(r)
                                /\ call[r].nb = n
                                /\ call[r].op = "create"

NoResurrection == [][NewRowsAreCreated]_vars

\* A rename leaves revision and last_synced_at as they are at its commit, not
\* as they were when it loaded the row: a sync in between is not undone.
RenamesKeepRevision ==
    \A r \in Requests :
        (Commits(r) /\ call[r].op = "rename" /\ rows[call[r].nb] # Absent) =>
            /\ rows'[call[r].nb] # Absent
            /\ rows'[call[r].nb].revision = rows[call[r].nb].revision
            /\ rows'[call[r].nb].synced = rows[call[r].nb].synced

RenameKeepsRevision == [][RenamesKeepRevision]_vars

\* The response is built before the commit, yet describes the row that the
\* commit installs, columns written by other requests included.
AnswersAreCommitted ==
    \A r \in Requests :
        (Commits(r) /\ pending[r] \notin {None, Absent}) =>
            notebook'[r] = rows'[call[r].nb]

AnswerIsTheCommittedRow == [][AnswersAreCommitted]_vars

\* A request that arrived is eventually over: no two of them wait for each
\* other's row locks, and none waits for a lock whose holder has gone.
EveryRequestEnds ==
    \A r \in Requests : pc[r] # "idle" ~> pc[r] = "idle"

-----------------------------------------------------------------------------
(***************************************************************************)
(* What docs/persistence.md promises and concurrent requests break.        *)
(***************************************************************************)

\* 6.3: a sync never replaces a version other than the one it was based on.
SyncReplacesOnlyItsBase ==
    [][\A r \in Requests :
        (Commits(r) /\ call[r].op = "sync") =>
            /\ rows[call[r].nb] # Absent
            /\ rows[call[r].nb].revision = call[r].base]_vars

\* 8.4: the title of the row and the title in its snapshot are consistent.
TitleMatchesSnapshot ==
    \A n \in Notebooks : rows[n] # Absent => rows[n].title = rows[n].snapshot.title

\* 8.4, 11: a rename is no sync, it leaves the notebook's contents alone.
RenameKeepsBody ==
    [][\A r \in Requests :
        (Commits(r) /\ call[r].op = "rename" /\ rows[call[r].nb] # Absent) =>
            rows'[call[r].nb].snapshot.body = rows[call[r].nb].snapshot.body]_vars

-----------------------------------------------------------------------------
(***************************************************************************)
(* The inductive invariant behind them, part by part.                      *)
(***************************************************************************)

\* A request in flight is a known call, and it has loaded a row.
CallInv ==
    \A r \in Requests :
        /\ pc[r] # "idle" => call[r] \in Calls
        /\ InTransaction(r) => /\ call[r].op # "get"
                               /\ notebook[r] \in Row
        /\ pc[r] = "refresh" => call[r].op # "delete"

\* A delete that has been answered with success.
Deleted(r) == pc[r] = "reply" /\ call[r].op = "delete" /\ result[r] = "ok"

\* Only uuids that were drawn name rows, or are used by requests past their
\* checks: a create never draws one of these again.
IssuedInv ==
    /\ \A n \in Notebooks : rows[n] # Absent => n \in issued
    /\ \A r \in Requests :
          (InTransaction(r) \/ Deleted(r)) => call[r].nb \in issued

\* A row is locked exactly by the transaction that has written it, so at most
\* one uncommitted version of a row exists, and a lock dies with its holder.
LockInv ==
    /\ \A n \in Notebooks, r \in Requests :
          lock[n] = r => /\ InTransaction(r)
                         /\ pending[r] # None
                         /\ call[r].nb = n
    /\ \A r \in Requests :
          pending[r] # None => /\ InTransaction(r)
                               /\ lock[call[r].nb] = r

\* What a transaction has written fits what it was asked to do.
PendingInv ==
    \A r \in Requests :
        /\ pending[r] # None => (pending[r] = Absent <=> call[r].op = "delete")
        /\ (pending[r] # None /\ pc[r] = "flush") => call[r].op = "create"
        /\ (InTransaction(r) /\ call[r].op = "create") =>
              /\ pending[r] # None
              /\ pc[r] = "flush" => /\ notebook[r] = Inserted(call[r])
                                    /\ pending[r] = Inserted(call[r])

\* The two metadata columns of a version agree.
Coherent(row) == row.synced <=> row.revision > 1

\* Every version of a row - committed, loaded or pending - carries the row's
\* id and coherent metadata; a create's first version still has the client's.
VersionInv ==
    /\ \A n \in Notebooks :
          rows[n] # Absent => rows[n].snapshot.id = n /\ Coherent(rows[n])
    /\ \A r \in Requests :
          InTransaction(r) =>
              /\ Coherent(notebook[r])
              /\ call[r].op # "create" => notebook[r].snapshot.id = call[r].nb
    /\ \A r \in Requests :
          pending[r] \notin {None, Absent} =>
              /\ Coherent(pending[r])
              /\ pc[r] # "flush" => pending[r].snapshot.id = call[r].nb

\* A sync carries its base revision from the check to the answer.
SyncInv ==
    \A r \in Requests :
        (pc[r] # "idle" /\ call[r].op = "sync") =>
            /\ pc[r] = "flush" => notebook[r].revision = call[r].base
            /\ pc[r] = "refresh" => /\ pending[r] \notin {None, Absent}
                                    /\ pending[r].revision = call[r].base + 1
            /\ (pc[r] = "commit" \/ (pc[r] = "reply" /\ result[r] = "ok")) =>
                    notebook[r].revision = call[r].base + 1

\* What Refresh read back is what Commit will install.
AnswerInv ==
    \A r \in Requests :
        (pc[r] = "commit" /\ pending[r] \notin {None, Absent}) =>
            notebook[r] = pending[r]

\* While the create of a uuid is in flight there is no such row, and no other
\* request that has seen one.
CreateInv ==
    \A r \in Requests :
        (InTransaction(r) /\ call[r].op = "create") =>
            /\ rows[call[r].nb] = Absent
            /\ \A q \in Requests \ {r} :
                  (InTransaction(q) \/ Deleted(q)) => call[q].nb # call[r].nb

\* A rename has written the metadata of the row it locked.
RenameInv ==
    \A r \in Requests :
        (pending[r] # None /\ call[r].op = "rename") =>
            /\ pending[r].revision = rows[call[r].nb].revision
            /\ pending[r].synced = rows[call[r].nb].synced

\* A delete that wrote nothing, or has committed, leaves no row.
DeleteInv ==
    \A r \in Requests :
        (\/ Deleted(r)
         \/ pc[r] = "commit" /\ call[r].op = "delete" /\ pending[r] = None)
        => rows[call[r].nb] = Absent

\* Whoever is past get_owned is the owner, then and at the commit.
OwnerInv ==
    \A r \in Requests :
        /\ (InTransaction(r) /\ rows[call[r].nb] # Absent) =>
              rows[call[r].nb].owner = call[r].user
        /\ pending[r] \notin {None, Absent} =>
              pending[r].owner = call[r].user

\* An update has a committed row under it, which its lock keeps there.
UpdateInv ==
    \A r \in Requests :
        (pending[r] # None /\ call[r].op # "create") => rows[call[r].nb] # Absent

IInv ==
    /\ TypeOK
    /\ CallInv
    /\ IssuedInv
    /\ LockInv
    /\ PendingInv
    /\ UpdateInv
    /\ CreateInv
    /\ OwnerInv
    /\ VersionInv
    /\ SyncInv
    /\ AnswerInv
    /\ RenameInv
    /\ DeleteInv

=============================================================================
