---------------------------- MODULE NotebookData ----------------------------
(***************************************************************************)
(* The values that the notebook service of src/app/features/notebooks      *)
(* handles: a row of the table `notebooks`, the content snapshot inside    *)
(* it, the requests of the five endpoints that read or write one row, and  *)
(* the pure helpers of service.py.  Tags, blocks and metadata of a         *)
(* snapshot are one opaque body; timestamps other than "was it ever        *)
(* synced" are left out.                                                   *)
(***************************************************************************)
EXTENDS Integers

CONSTANTS
    Users,          \* authenticated users (the id in the session's user)
    Notebooks,      \* the uuids that uuid.uuid4 may draw
    Titles,         \* notebook titles
    Bodies,         \* snapshot contents: tags, blocks, metadata
    Requests,       \* request slots: the handlers in flight at one time
    ClientId,       \* the `id` a client wrote into the snapshot it sends
    MaxRevision,    \* the largest value of the column `revision` (INTEGER)
    Absent,         \* no row
    None            \* no request, no lock holder, nothing written yet

\* The column is an INTEGER whose first value is 1.
ASSUME MaxRevisionAssumption == MaxRevision \in Nat /\ MaxRevision >= 1

Revisions == 1 .. MaxRevision

\* NotebookSnapshot: `id` and `title` repeat metadata of the row.
Snapshot == [id : Notebooks \cup {ClientId}, title : Titles, body : Bodies]

\* Notebook: `synced` says whether last_synced_at is set.
Row == [owner : Users, title : Titles, snapshot : Snapshot,
        revision : Revisions, synced : BOOLEAN]

\* What a client sends: align_snapshot overwrites the id whatever it is, so
\* one id that is no row's stands for all of them.
SentSnapshot == [id : {ClientId}, title : Titles, body : Bodies]

\* The requests, with the user that get_current_user resolved.  The `nb` of
\* a create is the uuid its row will be given.  A base_revision that no row
\* can have is only ever a conflict, as is any stale one.
CreateCalls == [op : {"create"}, user : Users, nb : Notebooks, title : Titles,
                sent : SentSnapshot]
GetCalls    == [op : {"get"}, user : Users, nb : Notebooks]
RenameCalls == [op : {"rename"}, user : Users, nb : Notebooks, title : Titles]
DeleteCalls == [op : {"delete"}, user : Users, nb : Notebooks]
SyncCalls   == [op : {"sync"}, user : Users, nb : Notebooks, base : Revisions,
                sent : SentSnapshot]
Calls == CreateCalls \cup GetCalls \cup RenameCalls \cup DeleteCalls
            \cup SyncCalls

\* The sentinels are not values of the sets they are added to.
ASSUME SentinelAssumption ==
    /\ Absent \notin Row
    /\ None \notin Row \cup {Absent}
    /\ None \notin Calls
    /\ None \notin Requests
    /\ ClientId \notin Notebooks

\* Mutant: the snapshot keeps the id the client sent.
AlignTitle(snapshot, nb, title) == [snapshot EXCEPT !.title = title]

\* Mutant: the snapshot keeps the title the client sent.
AlignId(snapshot, nb, title) == [snapshot EXCEPT !.id = nb]

\* align_snapshot: force the snapshot's id and title to match the row.
AlignSnapshot(snapshot, nb, title) ==
    [snapshot EXCEPT !.id = nb, !.title = title]

\* The row that POST /notebooks inserts: the snapshot as the client sent it.
Inserted(c) == [owner |-> c.user, title |-> c.title, snapshot |-> c.sent,
                revision |-> 1, synced |-> FALSE]

\* Mutant: a rename builds a snapshot anew instead of keeping the contents.
AssignedAnew(c, row) ==
    IF c.op = "rename"
    THEN [row EXCEPT !.title = c.title,
                     !.snapshot = [id |-> c.nb, title |-> c.title,
                                   body |-> CHOOSE b \in Bodies : TRUE]]
    ELSE [row EXCEPT !.title = IF c.op = "sync" THEN c.sent.title ELSE @,
                     !.snapshot = AlignSnapshot(c.sent, c.nb, c.sent.title),
                     !.revision = IF c.op = "sync" THEN @ + 1 ELSE @,
                     !.synced = (c.op = "sync")]

\* The ORM object after NotebookService.create / rename / sync assigned its
\* attributes, from the object `row` it loaded.
Assigned(c, row) ==
    CASE c.op = "create" ->
            [row EXCEPT !.snapshot = AlignSnapshot(c.sent, c.nb, c.title)]
      [] c.op = "rename" ->
            [row EXCEPT !.title = c.title,
                        !.snapshot = AlignSnapshot(@, c.nb, c.title)]
      [] c.op = "sync" ->
            [row EXCEPT !.title = c.sent.title,
                        !.snapshot = AlignSnapshot(c.sent, c.nb, c.sent.title),
                        !.revision = @ + 1,
                        !.synced = TRUE]

=============================================================================
