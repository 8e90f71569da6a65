------------------------- MODULE NotebookStoreProofs ------------------------
(***************************************************************************)
(* Theorems about NotebookStore, for any users, notebooks, requests,       *)
(* titles, bodies and MaxRevision.                                         *)
(***************************************************************************)
EXTENDS NotebookStore, TLAPS

-----------------------------------------------------------------------------
(***************************************************************************)
(* Lemmas about the values: what the pure helpers return.                  *)
(***************************************************************************)

\* A call is of the kind its op names: the five kinds are disjoint.
LEMMA CallKinds ==
    ASSUME NEW c \in Calls
    PROVE  /\ c.op \in {"create", "get", "rename", "delete", "sync"}
           /\ c.user \in Users
           /\ c.nb \in Notebooks
           /\ c.op = "create" => c \in CreateCalls
           /\ c.op = "rename" => c \in RenameCalls
           /\ c.op = "sync" => c \in SyncCalls
  BY DEF Calls, CreateCalls, GetCalls, RenameCalls, DeleteCalls, SyncCalls

\* A row just inserted is a row, at revision 1 and with the client's id.
LEMMA InsertedRow ==
    ASSUME NEW c \in CreateCalls
    PROVE  /\ Inserted(c) \in Row
           /\ Inserted(c).snapshot.id = ClientId
           /\ Inserted(c).revision = 1
           /\ Inserted(c).synced = FALSE
           /\ Inserted(c).owner = c.user
  BY MaxRevisionAssumption
     DEF Inserted, Row, CreateCalls, SentSnapshot, Snapshot, Revisions

\* align_snapshot yields a snapshot with the id and title asked for, and the
\* body it was given.
LEMMA AlignedSnapshot ==
    ASSUME NEW s \in Snapshot, NEW n \in Notebooks, NEW t \in Titles
    PROVE  /\ AlignSnapshot(s, n, t) \in Snapshot
           /\ AlignSnapshot(s, n, t).id = n
           /\ AlignSnapshot(s, n, t).title = t
           /\ AlignSnapshot(s, n, t).body = s.body
  BY DEF AlignSnapshot, Snapshot

\* The object that a handler writes: the id in its snapshot is the row's,
\* and only a sync moves revision and last_synced_at.
LEMMA AssignedRow ==
    ASSUME NEW c \in Calls, NEW row \in Row,
           c.op \in {"create", "rename", "sync"}
    PROVE  /\ Assigned(c, row).snapshot.id = c.nb
           /\ Assigned(c, row).revision =
                    IF c.op = "sync" THEN row.revision + 1 ELSE row.revision
           /\ c.op = "sync" => Assigned(c, row).synced = TRUE
           /\ c.op # "sync" => Assigned(c, row).synced = row.synced
           /\ Assigned(c, row).owner = row.owner
           /\ Assigned(c, row).revision <= MaxRevision
                    => Assigned(c, row) \in Row
  <1>1. CASE c.op = "create"
    <2>1. c \in CreateCalls /\ c.nb \in Notebooks
      BY <1>1, CallKinds
    <2>2. c.sent \in Snapshot /\ c.title \in Titles
      BY <2>1 DEF CreateCalls, SentSnapshot, Snapshot
    <2>3. Assigned(c, row) =
            [row EXCEPT !.snapshot = AlignSnapshot(c.sent, c.nb, c.title)]
      BY <1>1 DEF Assigned
    <2> QED BY <1>1, <2>1, <2>2, <2>3, AlignedSnapshot DEF Row
  <1>2. CASE c.op = "rename"
    <2>1. c \in RenameCalls /\ c.nb \in Notebooks
      BY <1>2, CallKinds
    <2>2. row.snapshot \in Snapshot /\ c.title \in Titles
      BY <2>1 DEF RenameCalls, Row
    <2>3. Assigned(c, row) =
            [row EXCEPT !.title = c.title,
                        !.snapshot = AlignSnapshot(row.snapshot, c.nb,
                                c.title)]
      BY <1>2 DEF Assigned
    <2>4. /\ AlignSnapshot(row.snapshot, c.nb, c.title) \in Snapshot
          /\ AlignSnapshot(row.snapshot, c.nb, c.title).id = c.nb
      BY <2>1, <2>2, AlignedSnapshot
    <2> QED BY <1>2, <2>1, <2>2, <2>3, <2>4 DEF Row
  <1>3. CASE c.op = "sync"
    <2>1. c \in SyncCalls /\ c.nb \in Notebooks
      BY <1>3, CallKinds
    <2>2. c.sent \in Snapshot /\ c.sent.title \in Titles
      BY <2>1 DEF SyncCalls, SentSnapshot, Snapshot
    <2>3. Assigned(c, row) =
            [row EXCEPT !.title = c.sent.title,
                        !.snapshot = AlignSnapshot(c.sent, c.nb, c.sent.title),
                        !.revision = @ + 1,
                        !.synced = TRUE]
      BY <1>3 DEF Assigned
    <2>4. /\ AlignSnapshot(c.sent, c.nb, c.sent.title) \in Snapshot
          /\ AlignSnapshot(c.sent, c.nb, c.sent.title).id = c.nb
      BY <2>1, <2>2, AlignedSnapshot
    <2>5. /\ row.revision \in Int /\ row.revision >= 1
          /\ \A k \in Int : (1 <= k /\ k <= MaxRevision) => k \in Revisions
      BY MaxRevisionAssumption DEF Row, Revisions
    <2> DEFINE new == Assigned(c, row)
    <2>6. /\ new.title = c.sent.title
          /\ new.snapshot = AlignSnapshot(c.sent, c.nb, c.sent.title)
          /\ new.revision = row.revision + 1
          /\ new.synced = TRUE
          /\ new.owner = row.owner
      BY <2>3 DEF Row
    <2>7. ASSUME new.revision <= MaxRevision PROVE new \in Row
      <3>1. row.revision + 1 \in Revisions
        BY <2>5, <2>6, <2>7
      <3> QED BY <2>2, <2>3, <2>4, <3>1 DEF Row
    <2> QED BY <1>3, <2>4, <2>6, <2>7
  <1> QED BY <1>1, <1>2, <1>3


-----------------------------------------------------------------------------
(***************************************************************************)
(* The steps of the specification, in the few shapes that the invariants   *)
(* tell apart.                                                             *)
(***************************************************************************)

\* Get, LookupOwned or LookupSync: answered at once, or past the checks.
Lookup(r, c) ==
    /\ c \in Calls
    /\ c.op # "create"
    /\ pc[r] = "idle"
    /\ call' = [call EXCEPT ![r] = c]
    /\ notebook' = [notebook EXCEPT ![r] = GetOwned(c.user, c.nb)]
    /\ \/ /\ pc' = [pc EXCEPT ![r] = "reply"]
          /\ \/ /\ GetOwned(c.user, c.nb) = Absent
                /\ result' = [result EXCEPT ![r] = "not_found"]
             \/ /\ GetOwned(c.user, c.nb) # Absent
                /\ c.op = "get"
                /\ result' = [result EXCEPT ![r] = "ok"]
             \/ /\ GetOwned(c.user, c.nb) # Absent
                /\ c.op = "sync"
                /\ c.base # GetOwned(c.user, c.nb).revision
                /\ result' = [result EXCEPT ![r] = "conflict"]
       \/ /\ pc' = [pc EXCEPT ![r] = "flush"]
          /\ result' = [result EXCEPT ![r] = "none"]
          /\ c.op # "get"
          /\ GetOwned(c.user, c.nb) # Absent
          /\ c.op = "sync" => c.base = GetOwned(c.user, c.nb).revision
    /\ UNCHANGED <<rows, issued, lock, pending>>

Updates == {"create", "rename", "sync"}

\* A flush with nothing to write.
Clean(r) ==
    /\ pc[r] = "flush"
    /\ call[r].op \in Updates
    /\ Assigned(call[r], notebook[r]) = notebook[r]
    /\ pc' = [pc EXCEPT ![r] = "refresh"]
    /\ UNCHANGED <<rows, issued, lock, call, notebook, pending, result>>

\* A flush that writes columns of the locked row.
Write(r) ==
    LET new == Assigned(call[r], notebook[r]) IN
    /\ pc[r] = "flush"
    /\ call[r].op \in Updates
    /\ new # notebook[r]
    /\ new.revision <= MaxRevision
    /\ CanLock(r, call[r].nb)
    /\ View(r) # Absent
    /\ lock' = [lock EXCEPT ![call[r].nb] = r]
    /\ pending' = [pending EXCEPT ![r] =
            UpdateColumns(View(r), notebook[r], new, call[r].op = "sync")]
    /\ notebook' = [notebook EXCEPT ![r] = new]
    /\ pc' = [pc EXCEPT ![r] = "refresh"]
    /\ UNCHANGED <<rows, issued, call, result>>

\* A refresh that finds the row.
ReadBack(r) ==
    /\ pc[r] = "refresh"
    /\ View(r) # Absent
    /\ notebook' = [notebook EXCEPT ![r] = View(r)]
    /\ pc' = [pc EXCEPT ![r] = "commit"]
    /\ UNCHANGED <<rows, issued, lock, call, pending, result>>

Step ==
    \/ UNCHANGED vars
    \/ \E r \in Requests : \E c \in CreateCalls : Insert(r, c)
    \/ \E r \in Requests : \E c \in Calls : Lookup(r, c)
    \/ \E r \in Requests : Clean(r)
    \/ \E r \in Requests : pc[r] \in {"flush", "refresh"} /\ Fail(r)
    \/ \E r \in Requests : Write(r)
    \/ \E r \in Requests : FlushDelete(r)
    \/ \E r \in Requests : ReadBack(r)
    \/ \E r \in Requests : Commit(r)
    \/ \E rs \in SUBSET Requests : Forget(rs)

\* Every step has one of these shapes.
LEMMA NextSteps == [Next]_vars => Step
  <1> SUFFICES ASSUME Next PROVE Step
    BY DEF Step
  <1>1. ASSUME NEW r \in Requests, NEW c \in GetCalls, Get(r, c)
        PROVE  Lookup(r, c)
    BY <1>1 DEF Get, Open, Lookup, GetCalls, Calls
  <1>2. ASSUME NEW r \in Requests, NEW c \in RenameCalls \cup DeleteCalls,
               LookupOwned(r, c)
        PROVE  Lookup(r, c)
    <2>1. c \in Calls /\ c.op \in {"rename", "delete"}
      BY DEF Calls, RenameCalls, DeleteCalls
    <2> QED BY <1>2, <2>1 DEF LookupOwned, Open, Lookup
  <1>3. ASSUME NEW r \in Requests, NEW c \in SyncCalls, LookupSync(r, c)
        PROVE  Lookup(r, c)
    <2>1. c \in Calls /\ c.op = "sync"
      BY DEF Calls, SyncCalls
    <2> QED BY <1>3, <2>1 DEF LookupSync, Open, Lookup
  <1>4. ASSUME NEW r \in Requests, FlushUpdate(r)
        PROVE  Clean(r) \/ Write(r) \/ (pc[r] = "flush" /\ Fail(r))
    BY <1>4 DEF FlushUpdate, Clean, Write, Updates
  <1>5. ASSUME NEW r \in Requests, Refresh(r)
        PROVE  ReadBack(r) \/ (pc[r] = "refresh" /\ Fail(r))
    BY <1>5 DEF Refresh, ReadBack
  <1>6. ASSUME NEW r \in Requests, Reply(r) \/ Abort(r)
        PROVE  \E rs \in SUBSET Requests : Forget(rs)
    BY <1>6 DEF Reply, Abort
  <1>7. Crash => \E rs \in SUBSET Requests : Forget(rs)
    BY DEF Crash
  <1>8. GetCalls \cup RenameCalls \cup DeleteCalls \cup SyncCalls
            \subseteq Calls
    BY DEF Calls
  <1> QED BY <1>1, <1>2, <1>3, <1>4, <1>5, <1>6, <1>7, <1>8
          DEF Next, Arrive, Flush, Step

-----------------------------------------------------------------------------
(***************************************************************************)
(* Types.                                                                  *)
(***************************************************************************)

TypeInv == TypeOK /\ CallInv

\* get_owned returns a committed row of the user, or nothing.
LEMMA GetOwnedRow ==
    ASSUME TypeOK, NEW user \in Users, NEW nb \in Notebooks
    PROVE  /\ GetOwned(user, nb) \in Row \cup {Absent}
           /\ GetOwned(user, nb) # Absent =>
                 /\ GetOwned(user, nb) = rows[nb]
                 /\ rows[nb] \in Row
                 /\ rows[nb].owner = user
  BY DEF TypeOK, GetOwned

\* What a flush writes: a row with the owner, and the columns, that the
\* column-wise UPDATE gives it; the object in the session has the row's id.
LEMMA WrittenRow ==
    ASSUME TypeInv, NEW r \in Requests, Write(r)
    PROVE  LET c   == call[r]
               new == notebook'[r]
               row == pending'[r]
           IN
           /\ c \in Calls
           /\ View(r) \in Row
           /\ new \in Row
           /\ row \in Row
           /\ row.owner = View(r).owner
           /\ new.snapshot.id = c.nb
           /\ row.snapshot = IF new.snapshot = notebook[r].snapshot
                             THEN View(r).snapshot ELSE new.snapshot
           /\ c.op = "sync" => /\ new.revision = notebook[r].revision + 1
                               /\ new.synced = TRUE
                               /\ row.revision = new.revision
                               /\ row.synced = TRUE
           /\ c.op # "sync" => /\ new.revision = notebook[r].revision
                               /\ new.synced = notebook[r].synced
                               /\ row.revision = View(r).revision
                               /\ row.synced = View(r).synced
  <1> DEFINE new == Assigned(call[r], notebook[r])
             row == UpdateColumns(View(r), notebook[r], new,
                                  call[r].op = "sync")
  <1>1. /\ call[r] \in Calls
        /\ call[r].nb \in Notebooks
        /\ call[r].op \in Updates
        /\ notebook[r] \in Row
    BY CallKinds DEF TypeInv, CallInv, InTransaction, Write
  <1>2. View(r) \in Row
    BY <1>1 DEF TypeInv, TypeOK, Write, View
  <1>3. /\ new.snapshot.id = call[r].nb
        /\ new.revision = IF call[r].op = "sync" THEN notebook[r].revision + 1
                                                 ELSE notebook[r].revision
        /\ call[r].op = "sync" => new.synced = TRUE
        /\ call[r].op # "sync" => new.synced = notebook[r].synced
        /\ new \in Row
    BY <1>1, AssignedRow DEF Updates, Write
  <1>4. /\ row \in Row
        /\ row.owner = View(r).owner
        /\ row.snapshot = IF new.snapshot = notebook[r].snapshot
                          THEN View(r).snapshot ELSE new.snapshot
        /\ row.revision = IF new.revision = notebook[r].revision
                          THEN View(r).revision ELSE new.revision
        /\ row.synced = IF call[r].op = "sync" THEN new.synced
                                               ELSE View(r).synced
    <2> HIDE DEF new
    <2>1. row = UpdateColumns(View(r), notebook[r], new, call[r].op = "sync")
      OBVIOUS
    <2> HIDE DEF row
    <2> QED BY <1>1, <1>2, <1>3, <2>1 DEF UpdateColumns, Row
  <1>5. notebook[r].revision + 1 # notebook[r].revision
    BY <1>1 DEF Row, Revisions
  <1>6. notebook'[r] = new /\ pending'[r] = row
    BY DEF Write, TypeInv, TypeOK
  <1> HIDE DEF new, row
  <1> QED BY <1>1, <1>2, <1>3, <1>4, <1>5, <1>6

\* TypeOK and CallInv are preserved by every step.
LEMMA TypeStep == TypeInv /\ Step => TypeInv'
  <1> SUFFICES ASSUME TypeInv, Step PROVE TypeInv'
    OBVIOUS
  <1> USE DEF TypeInv, TypeOK, CallInv, InTransaction, Statuses
  <1>1. CASE UNCHANGED vars
    BY <1>1 DEF vars
  <1>2. ASSUME NEW r \in Requests, NEW c \in CreateCalls, Insert(r, c)
        PROVE  TypeInv'
    <2>1. /\ Inserted(c) \in Row
          /\ c \in Calls /\ c.nb \in Notebooks /\ c.op = "create"
      BY InsertedRow DEF Calls, CreateCalls
    <2> QED BY <1>2, <2>1 DEF Insert, Open
  <1>3. ASSUME NEW r \in Requests, NEW c \in Calls, Lookup(r, c)
        PROVE  TypeInv'
    <2>1. /\ GetOwned(c.user, c.nb) \in Row \cup {Absent}
      BY GetOwnedRow, CallKinds
    <2> QED BY <1>3, <2>1 DEF Lookup
  <1>4. ASSUME NEW r \in Requests, Clean(r)
        PROVE  TypeInv'
    BY <1>4 DEF Clean, Updates
  <1>5. ASSUME NEW r \in Requests, pc[r] \in {"flush", "refresh"}, Fail(r)
        PROVE  TypeInv'
    BY <1>5 DEF Fail, Release
  <1>6. ASSUME NEW r \in Requests, Write(r)
        PROVE  TypeInv'
    <2>1. /\ notebook'[r] \in Row /\ pending'[r] \in Row
          /\ call[r] \in Calls /\ call[r].nb \in Notebooks
      BY <1>6, WrittenRow, CallKinds
    <2> QED BY <1>6, <2>1 DEF Write, Updates
  <1>7. ASSUME NEW r \in Requests, FlushDelete(r)
        PROVE  TypeInv'
    <2>1. call[r] \in Calls /\ call[r].nb \in Notebooks
      BY <1>7, CallKinds DEF FlushDelete
    <2> QED BY <1>7, <2>1 DEF FlushDelete
  <1>8. ASSUME NEW r \in Requests, ReadBack(r)
        PROVE  TypeInv'
    <2>1. call[r] \in Calls /\ call[r].nb \in Notebooks
      BY <1>8, CallKinds DEF ReadBack
    <2>2. View(r) \in Row
      BY <1>8, <2>1 DEF ReadBack, View
    <2> QED BY <1>8, <2>1, <2>2 DEF ReadBack
  <1>9. ASSUME NEW r \in Requests, Commit(r)
        PROVE  TypeInv'
    <2>1. call[r] \in Calls /\ call[r].nb \in Notebooks
      BY <1>9, CallKinds DEF Commit
    <2> QED BY <1>9, <2>1 DEF Commit, Release
  <1>10. ASSUME NEW rs \in SUBSET Requests, Forget(rs)
         PROVE  TypeInv'
    BY <1>10 DEF Forget
  <1> QED BY <1>1, <1>2, <1>3, <1>4, <1>5, <1>6, <1>7, <1>8, <1>9, <1>10
          DEF Step

LEMMA TypeInit == Init => TypeInv
  BY DEF Init, TypeInv, TypeOK, CallInv, InTransaction, Statuses

-----------------------------------------------------------------------------
(***************************************************************************)
(* The invariant, one part at a time: each from the parts before it.       *)
(***************************************************************************)

\* A row, or a request past its checks, has a uuid that was drawn.
LEMMA IssuedStep ==
    TypeInv /\ IssuedInv /\ Step => IssuedInv'
  <1> SUFFICES ASSUME TypeInv, IssuedInv, Step PROVE IssuedInv'
    OBVIOUS
  <1> USE SentinelAssumption DEF TypeInv, TypeOK, CallInv, InTransaction,
          IssuedInv
  <1>1. CASE UNCHANGED vars
    BY <1>1 DEF vars, Deleted
  <1>2. ASSUME NEW r \in Requests, NEW c \in CreateCalls, Insert(r, c)
        PROVE  IssuedInv'
    BY <1>2 DEF Insert, Open, Deleted
  <1>3. ASSUME NEW r \in Requests, NEW c \in Calls, Lookup(r, c)
        PROVE  IssuedInv'
    <2>1. /\ c.nb \in Notebooks /\ c.user \in Users
          /\ GetOwned(c.user, c.nb) # Absent =>
                /\ GetOwned(c.user, c.nb) = rows[c.nb]
                /\ rows[c.nb] \in Row
                /\ rows[c.nb].owner = c.user
      BY CallKinds, GetOwnedRow
    <2> QED BY <1>3, <2>1 DEF Lookup, Deleted
  <1>4. ASSUME NEW r \in Requests, Clean(r)
        PROVE  IssuedInv'
    BY <1>4 DEF Clean, Updates, Deleted
  <1>5. ASSUME NEW r \in Requests, pc[r] \in {"flush", "refresh"}, Fail(r)
        PROVE  IssuedInv'
    BY <1>5 DEF Fail, Release, Deleted
  <1>6. ASSUME NEW r \in Requests, Write(r)
        PROVE  IssuedInv'
    BY <1>6 DEF Write, Updates, Deleted
  <1>7. ASSUME NEW r \in Requests, FlushDelete(r)
        PROVE  IssuedInv'
    BY <1>7 DEF FlushDelete, Deleted
  <1>8. ASSUME NEW r \in Requests, ReadBack(r)
        PROVE  IssuedInv'
    BY <1>8 DEF ReadBack, Deleted
  <1>9. ASSUME NEW r \in Requests, Commit(r)
        PROVE  IssuedInv'
    BY <1>9 DEF Commit, Release, Deleted
  <1>10. ASSUME NEW rs \in SUBSET Requests, Forget(rs)
        PROVE  IssuedInv'
    BY <1>10 DEF Forget, Deleted
  <1> QED BY <1>1, <1>2, <1>3, <1>4, <1>5, <1>6, <1>7, <1>8, <1>9, <1>10
      DEF Step

\* A lock is taken with a write and freed with its transaction.
LEMMA LockStep ==
    TypeInv /\ IssuedInv /\ LockInv /\ Step => LockInv'
  <1> SUFFICES ASSUME TypeInv, IssuedInv, LockInv, Step PROVE LockInv'
    OBVIOUS
  <1> USE SentinelAssumption DEF TypeInv, TypeOK, CallInv, InTransaction,
          IssuedInv, LockInv
  <1>0. \A q \in Requests : pc[q] # "idle" => call[q].nb \in Notebooks
    BY CallKinds
  <1>1. CASE UNCHANGED vars
    BY <1>0, <1>1 DEF vars
  <1>2. ASSUME NEW r \in Requests, NEW c \in CreateCalls, Insert(r, c)
        PROVE  LockInv'
    <2>1. /\ Inserted(c) \in Row
          /\ c \in Calls /\ c.nb \in Notebooks /\ c.op = "create"
      BY InsertedRow DEF Calls, CreateCalls
    <2> QED BY <1>0, <1>2, <2>1 DEF Insert, Open
  <1>3. ASSUME NEW r \in Requests, NEW c \in Calls, Lookup(r, c)
        PROVE  LockInv'
    BY <1>0, <1>3 DEF Lookup
  <1>4. ASSUME NEW r \in Requests, Clean(r)
        PROVE  LockInv'
    BY <1>0, <1>4 DEF Clean, Updates
  <1>5. ASSUME NEW r \in Requests, pc[r] \in {"flush", "refresh"}, Fail(r)
        PROVE  LockInv'
    BY <1>0, <1>5 DEF Fail, Release
  <1>6. ASSUME NEW r \in Requests, Write(r)
        PROVE  LockInv'
    <2>1. /\ notebook'[r] \in Row /\ pending'[r] \in Row
          /\ call[r] \in Calls /\ call[r].nb \in Notebooks
      BY <1>0, <1>6, WrittenRow, CallKinds
    <2> QED BY <1>0, <1>6, <2>1 DEF Write, Updates, CanLock
  <1>7. ASSUME NEW r \in Requests, FlushDelete(r)
        PROVE  LockInv'
    BY <1>0, <1>7 DEF FlushDelete, CanLock
  <1>8. ASSUME NEW r \in Requests, ReadBack(r)
        PROVE  LockInv'
    BY <1>0, <1>8 DEF ReadBack
  <1>9. ASSUME NEW r \in Requests, Commit(r)
        PROVE  LockInv'
    BY <1>0, <1>9 DEF Commit, Release
  <1>10. ASSUME NEW rs \in SUBSET Requests, Forget(rs)
        PROVE  LockInv'
    BY <1>0, <1>10 DEF Forget
  <1> QED BY <1>0, <1>1, <1>2, <1>3, <1>4, <1>5, <1>6, <1>7, <1>8, <1>9,
          <1>10 DEF Step

\* What is written fits the call.
LEMMA PendingStep ==
    TypeInv /\ LockInv /\ PendingInv /\ Step => PendingInv'
  <1> SUFFICES ASSUME TypeInv, LockInv, PendingInv, Step PROVE PendingInv'
    OBVIOUS
  <1> USE SentinelAssumption DEF TypeInv, TypeOK, CallInv, InTransaction,
          LockInv, PendingInv
  <1>1. CASE UNCHANGED vars
    BY <1>1 DEF vars
  <1>2. ASSUME NEW r \in Requests, NEW c \in CreateCalls, Insert(r, c)
        PROVE  PendingInv'
    <2>1. /\ Inserted(c) \in Row
          /\ c \in Calls /\ c.nb \in Notebooks /\ c.op = "create"
      BY InsertedRow DEF Calls, CreateCalls
    <2> QED BY <1>2, <2>1 DEF Insert, Open
  <1>3. ASSUME NEW r \in Requests, NEW c \in Calls, Lookup(r, c)
        PROVE  PendingInv'
    BY <1>3 DEF Lookup
  <1>4. ASSUME NEW r \in Requests, Clean(r)
        PROVE  PendingInv'
    BY <1>4 DEF Clean, Updates
  <1>5. ASSUME NEW r \in Requests, pc[r] \in {"flush", "refresh"}, Fail(r)
        PROVE  PendingInv'
    BY <1>5 DEF Fail, Release
  <1>6. ASSUME NEW r \in Requests, Write(r)
        PROVE  PendingInv'
    <2>1. /\ notebook'[r] \in Row /\ pending'[r] \in Row
          /\ call[r] \in Calls /\ call[r].nb \in Notebooks
      BY <1>6, WrittenRow, CallKinds
    <2> QED BY <1>6, <2>1 DEF Write, Updates
  <1>7. ASSUME NEW r \in Requests, FlushDelete(r)
        PROVE  PendingInv'
    BY <1>7 DEF FlushDelete
  <1>8. ASSUME NEW r \in Requests, ReadBack(r)
        PROVE  PendingInv'
    BY <1>8 DEF ReadBack
  <1>9. ASSUME NEW r \in Requests, Commit(r)
        PROVE  PendingInv'
    BY <1>9 DEF Commit, Release
  <1>10. ASSUME NEW rs \in SUBSET Requests, Forget(rs)
        PROVE  PendingInv'
    BY <1>10 DEF Forget
  <1> QED BY <1>1, <1>2, <1>3, <1>4, <1>5, <1>6, <1>7, <1>8, <1>9, <1>10
      DEF Step

\* The row under an uncommitted update stays.
LEMMA UpdateStep ==
    TypeInv /\ LockInv /\ PendingInv /\ UpdateInv /\ Step => UpdateInv'
  <1> SUFFICES ASSUME TypeInv, LockInv, PendingInv, UpdateInv,
          Step PROVE UpdateInv'
    OBVIOUS
  <1> USE SentinelAssumption DEF TypeInv, TypeOK, CallInv, InTransaction,
          LockInv, PendingInv, UpdateInv
  <1>1. CASE UNCHANGED vars
    BY <1>1 DEF vars
  <1>2. ASSUME NEW r \in Requests, NEW c \in CreateCalls, Insert(r, c)
        PROVE  UpdateInv'
    <2>1. /\ Inserted(c) \in Row
          /\ c \in Calls /\ c.nb \in Notebooks /\ c.op = "create"
      BY InsertedRow DEF Calls, CreateCalls
    <2> QED BY <1>2, <2>1 DEF Insert, Open
  <1>3. ASSUME NEW r \in Requests, NEW c \in Calls, Lookup(r, c)
        PROVE  UpdateInv'
    BY <1>3 DEF Lookup
  <1>4. ASSUME NEW r \in Requests, Clean(r)
        PROVE  UpdateInv'
    BY <1>4 DEF Clean, Updates
  <1>5. ASSUME NEW r \in Requests, pc[r] \in {"flush", "refresh"}, Fail(r)
        PROVE  UpdateInv'
    BY <1>5 DEF Fail, Release
  <1>6. ASSUME NEW r \in Requests, Write(r)
        PROVE  UpdateInv'
    BY <1>6 DEF Write, Updates, View
  <1>7. ASSUME NEW r \in Requests, FlushDelete(r)
        PROVE  UpdateInv'
    BY <1>7 DEF FlushDelete
  <1>8. ASSUME NEW r \in Requests, ReadBack(r)
        PROVE  UpdateInv'
    BY <1>8 DEF ReadBack
  <1>9. ASSUME NEW r \in Requests, Commit(r)
        PROVE  UpdateInv'
    BY <1>9 DEF Commit, Release
  <1>10. ASSUME NEW rs \in SUBSET Requests, Forget(rs)
        PROVE  UpdateInv'
    BY <1>10 DEF Forget
  <1> QED BY <1>1, <1>2, <1>3, <1>4, <1>5, <1>6, <1>7, <1>8, <1>9, <1>10
      DEF Step

\* A create in flight is alone with its uuid.
LEMMA CreateStep ==
    TypeInv /\ IssuedInv /\ LockInv /\ PendingInv /\ CreateInv /\ Step
        => CreateInv'
  <1> SUFFICES ASSUME TypeInv, IssuedInv, LockInv, PendingInv, CreateInv,
          Step PROVE CreateInv'
    OBVIOUS
  <1> USE SentinelAssumption DEF TypeInv, TypeOK, CallInv, InTransaction,
          IssuedInv, LockInv, PendingInv, CreateInv
  <1>1. CASE UNCHANGED vars
    BY <1>1 DEF vars, Deleted
  <1>2. ASSUME NEW r \in Requests, NEW c \in CreateCalls, Insert(r, c)
        PROVE  CreateInv'
    <2>1. /\ Inserted(c) \in Row
          /\ c \in Calls /\ c.nb \in Notebooks /\ c.op = "create"
      BY InsertedRow DEF Calls, CreateCalls
    <2> QED BY <1>2, <2>1 DEF Insert, Open, Deleted
  <1>3. ASSUME NEW r \in Requests, NEW c \in Calls, Lookup(r, c)
        PROVE  CreateInv'
    <2>1. /\ c.nb \in Notebooks /\ c.user \in Users
          /\ GetOwned(c.user, c.nb) # Absent =>
                /\ GetOwned(c.user, c.nb) = rows[c.nb]
                /\ rows[c.nb] \in Row
                /\ rows[c.nb].owner = c.user
      BY CallKinds, GetOwnedRow
    <2> QED BY <1>3, <2>1 DEF Lookup, Deleted
  <1>4. ASSUME NEW r \in Requests, Clean(r)
        PROVE  CreateInv'
    BY <1>4 DEF Clean, Updates, Deleted
  <1>5. ASSUME NEW r \in Requests, pc[r] \in {"flush", "refresh"}, Fail(r)
        PROVE  CreateInv'
    BY <1>5 DEF Fail, Release, Deleted
  <1>6. ASSUME NEW r \in Requests, Write(r)
        PROVE  CreateInv'
    BY <1>6 DEF Write, Updates, Deleted
  <1>7. ASSUME NEW r \in Requests, FlushDelete(r)
        PROVE  CreateInv'
    BY <1>7 DEF FlushDelete, Deleted
  <1>8. ASSUME NEW r \in Requests, ReadBack(r)
        PROVE  CreateInv'
    BY <1>8 DEF ReadBack, Deleted
  <1>9. ASSUME NEW r \in Requests, Commit(r)
        PROVE  CreateInv'
    BY <1>9 DEF Commit, Release, Deleted
  <1>10. ASSUME NEW rs \in SUBSET Requests, Forget(rs)
        PROVE  CreateInv'
    BY <1>10 DEF Forget, Deleted
  <1> QED BY <1>1, <1>2, <1>3, <1>4, <1>5, <1>6, <1>7, <1>8, <1>9, <1>10
      DEF Step

\* The owner check of get_owned outlives the step that made it.
LEMMA OwnerStep ==
    TypeInv /\ IssuedInv /\ LockInv /\ PendingInv /\ UpdateInv
        /\ CreateInv /\ OwnerInv /\ Step
        => OwnerInv'
  <1> SUFFICES ASSUME TypeInv, IssuedInv, LockInv, PendingInv, UpdateInv,
          CreateInv, OwnerInv, Step PROVE OwnerInv'
    OBVIOUS
  <1> USE SentinelAssumption DEF TypeInv, TypeOK, CallInv, InTransaction,
          IssuedInv, LockInv, PendingInv, UpdateInv, CreateInv, OwnerInv
  <1>1. CASE UNCHANGED vars
    BY <1>1 DEF vars
  <1>2. ASSUME NEW r \in Requests, NEW c \in CreateCalls, Insert(r, c)
        PROVE  OwnerInv'
    <2>1. /\ Inserted(c).owner = c.user
          /\ c \in Calls /\ c.nb \in Notebooks
      BY InsertedRow DEF Calls, CreateCalls
    <2> QED BY <1>2, <2>1 DEF Insert, Open
  <1>3. ASSUME NEW r \in Requests, NEW c \in Calls, Lookup(r, c)
        PROVE  OwnerInv'
    <2>1. /\ c.nb \in Notebooks /\ c.user \in Users
          /\ GetOwned(c.user, c.nb) # Absent =>
                /\ GetOwned(c.user, c.nb) = rows[c.nb]
                /\ rows[c.nb] \in Row
                /\ rows[c.nb].owner = c.user
      BY CallKinds, GetOwnedRow
    <2> QED BY <1>3, <2>1 DEF Lookup
  <1>4. ASSUME NEW r \in Requests, Clean(r)
        PROVE  OwnerInv'
    BY <1>4 DEF Clean, Updates
  <1>5. ASSUME NEW r \in Requests, pc[r] \in {"flush", "refresh"}, Fail(r)
        PROVE  OwnerInv'
    BY <1>5 DEF Fail, Release
  <1>6. ASSUME NEW r \in Requests, Write(r)
        PROVE  OwnerInv'
    <2>1. /\ call[r] \in Calls /\ call[r].nb \in Notebooks
          /\ pending'[r].owner = View(r).owner
          /\ pending'[r] \in Row
      BY <1>6, WrittenRow, CallKinds
    <2> QED BY <1>6, <2>1 DEF Write, Updates, View
  <1>7. ASSUME NEW r \in Requests, FlushDelete(r)
        PROVE  OwnerInv'
    BY <1>7 DEF FlushDelete
  <1>8. ASSUME NEW r \in Requests, ReadBack(r)
        PROVE  OwnerInv'
    BY <1>8 DEF ReadBack
  <1>9. ASSUME NEW r \in Requests, Commit(r)
        PROVE  OwnerInv'
    BY <1>9 DEF Commit, Release
  <1>10. ASSUME NEW rs \in SUBSET Requests, Forget(rs)
        PROVE  OwnerInv'
    BY <1>10 DEF Forget
  <1> QED BY <1>1, <1>2, <1>3, <1>4, <1>5, <1>6, <1>7, <1>8, <1>9, <1>10
      DEF Step

\* Every version of a row keeps the row's id and coherent metadata.
LEMMA VersionStep ==
    TypeInv /\ LockInv /\ PendingInv /\ VersionInv /\ Step => VersionInv'
  <1> SUFFICES ASSUME TypeInv, LockInv, PendingInv, VersionInv,
          Step PROVE VersionInv'
    OBVIOUS
  <1> USE SentinelAssumption DEF TypeInv, TypeOK, CallInv, InTransaction,
          LockInv, PendingInv, VersionInv
  <1>1. CASE UNCHANGED vars
    BY <1>1 DEF vars
  <1>2. ASSUME NEW r \in Requests, NEW c \in CreateCalls, Insert(r, c)
        PROVE  VersionInv'
    <2>1. /\ Inserted(c) \in Row /\ c.nb \in Notebooks
          /\ c \in Calls /\ c.op = "create"
          /\ Inserted(c).revision = 1 /\ Inserted(c).synced = FALSE
      BY InsertedRow DEF Calls, CreateCalls
    <2>2. Coherent(Inserted(c))
      BY <2>1 DEF Coherent
    <2> QED BY <1>2, <2>1, <2>2 DEF Insert, Open
  <1>3. ASSUME NEW r \in Requests, NEW c \in Calls, Lookup(r, c)
        PROVE  VersionInv'
    <2>1. /\ c.nb \in Notebooks /\ c.user \in Users
          /\ GetOwned(c.user, c.nb) # Absent =>
                /\ GetOwned(c.user, c.nb) = rows[c.nb]
                /\ rows[c.nb] \in Row
                /\ rows[c.nb].owner = c.user
      BY CallKinds, GetOwnedRow
    <2> QED BY <1>3, <2>1 DEF Lookup
  <1>4. ASSUME NEW r \in Requests, Clean(r)
        PROVE  VersionInv'
    <2>1. /\ call[r] \in Calls /\ call[r].nb \in Notebooks
          /\ notebook[r] \in Row
          /\ Assigned(call[r], notebook[r]) = notebook[r]
      BY <1>4, CallKinds DEF Clean
    <2>2. call[r].op # "create"
      <3>0. SUFFICES ASSUME call[r].op = "create" PROVE FALSE
        OBVIOUS
      <3>1. call[r] \in CreateCalls /\ call[r].op \in {"create", "rename",
              "sync"}
        BY <2>1, <3>0, CallKinds
      <3>2. Assigned(call[r], notebook[r]).snapshot.id = call[r].nb
        BY ONLY <2>1, <3>1, AssignedRow
      <3>3. notebook[r] = Inserted(call[r])
        BY <1>4, <3>0 DEF Clean
      <3>4. notebook[r].snapshot.id = ClientId
        BY ONLY <3>1, <3>3, InsertedRow
      <3> QED BY <2>1, <3>2, <3>4
    <2> QED BY <1>4, <2>1, <2>2 DEF Clean
  <1>5. ASSUME NEW r \in Requests, pc[r] \in {"flush", "refresh"}, Fail(r)
        PROVE  VersionInv'
    BY <1>5 DEF Fail, Release
  <1>6. ASSUME NEW r \in Requests, Write(r)
        PROVE  VersionInv'
    <2> DEFINE new == notebook'[r]
               row == pending'[r]
    <2>1. /\ call[r] \in Calls /\ call[r].nb \in Notebooks
          /\ View(r) \in Row /\ notebook[r] \in Row
          /\ new \in Row /\ row \in Row
      BY <1>6, WrittenRow, CallKinds DEF Write
    <2>2. Coherent(View(r)) /\ Coherent(notebook[r])
      BY <1>6, <2>1 DEF Write, View
    <2>3. Coherent(new) /\ Coherent(row)
      <3>1. CASE call[r].op = "sync"
        <4>1. /\ new.revision = notebook[r].revision + 1
              /\ new.synced = TRUE
              /\ row.revision = new.revision
              /\ row.synced = TRUE
          BY <1>6, <3>1, WrittenRow
        <4>2. notebook[r].revision \in Int /\ notebook[r].revision >= 1
          BY <2>1 DEF Row, Revisions
        <4> QED BY <4>1, <4>2 DEF Coherent
      <3>2. CASE call[r].op # "sync"
        <4>1. /\ new.revision = notebook[r].revision
              /\ new.synced = notebook[r].synced
              /\ row.revision = View(r).revision
              /\ row.synced = View(r).synced
          BY <1>6, <3>2, WrittenRow
        <4> QED BY <2>2, <4>1 DEF Coherent
      <3> QED BY <3>1, <3>2
    <2>4. /\ new.snapshot.id = call[r].nb
          /\ row.snapshot = IF new.snapshot = notebook[r].snapshot
                            THEN View(r).snapshot ELSE new.snapshot
      BY <1>6, WrittenRow
    <2>5. row.snapshot.id = call[r].nb
      <3>1. CASE call[r].op = "create"
        <4>1. notebook[r] = Inserted(call[r])
          BY <1>6, <3>1 DEF Write
        <4>2. call[r] \in CreateCalls
          BY <2>1, <3>1, CallKinds
        <4>3. notebook[r].snapshot.id = ClientId
          BY ONLY <4>1, <4>2, InsertedRow
        <4> QED BY <2>1, <2>4, <4>3
      <3>2. CASE call[r].op # "create"
        <4>1. View(r) = rows[call[r].nb]
          BY <1>6, <3>2 DEF Write, View
        <4>2. View(r).snapshot.id = call[r].nb
          BY <1>6, <2>1, <4>1 DEF Write
        <4> QED BY <2>4, <4>2
      <3> QED BY <3>1, <3>2
    <2> HIDE DEF new, row
    <2>6. \A q \in Requests : q # r => /\ pending'[q] = pending[q]
                                      /\ notebook'[q] = notebook[q]
                                      /\ pc'[q] = pc[q]
      BY <1>6 DEF Write
    <2>7. rows' = rows /\ call' = call
      BY <1>6 DEF Write
    <2> QED BY <2>1, <2>3, <2>4, <2>5, <2>6, <2>7 DEF new, row
  <1>7. ASSUME NEW r \in Requests, FlushDelete(r)
        PROVE  VersionInv'
    BY <1>7 DEF FlushDelete
  <1>8. ASSUME NEW r \in Requests, ReadBack(r)
        PROVE  VersionInv'
    <2>1. call[r] \in Calls /\ call[r].nb \in Notebooks
      BY <1>8, CallKinds DEF ReadBack
    <2> QED BY <1>8, <2>1 DEF ReadBack, View
  <1>9. ASSUME NEW r \in Requests, Commit(r)
        PROVE  VersionInv'
    BY <1>9 DEF Commit, Release
  <1>10. ASSUME NEW rs \in SUBSET Requests, Forget(rs)
        PROVE  VersionInv'
    BY <1>10 DEF Forget
  <1> QED BY <1>1, <1>2, <1>3, <1>4, <1>5, <1>6, <1>7, <1>8, <1>9, <1>10
      DEF Step

\* The base revision is carried along.
LEMMA SyncStep ==
    TypeInv /\ PendingInv /\ SyncInv /\ Step => SyncInv'
  <1> SUFFICES ASSUME TypeInv, PendingInv, SyncInv, Step PROVE SyncInv'
    OBVIOUS
  <1> USE SentinelAssumption DEF TypeInv, TypeOK, CallInv, InTransaction,
          PendingInv, SyncInv
  <1>1. CASE UNCHANGED vars
    BY <1>1 DEF vars
  <1>2. ASSUME NEW r \in Requests, NEW c \in CreateCalls, Insert(r, c)
        PROVE  SyncInv'
    <2>1. /\ Inserted(c) \in Row
          /\ c \in Calls /\ c.nb \in Notebooks /\ c.op = "create"
      BY InsertedRow DEF Calls, CreateCalls
    <2> QED BY <1>2, <2>1 DEF Insert, Open
  <1>3. ASSUME NEW r \in Requests, NEW c \in Calls, Lookup(r, c)
        PROVE  SyncInv'
    BY <1>3 DEF Lookup
  <1>4. ASSUME NEW r \in Requests, Clean(r)
        PROVE  SyncInv'
    <2>1. call[r].op # "sync"
      <3>0. SUFFICES ASSUME call[r].op = "sync" PROVE FALSE
        OBVIOUS
      <3>1. /\ call[r] \in Calls /\ notebook[r] \in Row
            /\ Assigned(call[r], notebook[r]) = notebook[r]
        BY <1>4 DEF Clean
      <3>2. call[r].op \in {"create", "rename", "sync"}
        BY <3>0
      <3>3. Assigned(call[r], notebook[r]).revision = notebook[r].revision + 1
        BY ONLY <3>0, <3>1, <3>2, AssignedRow
      <3> QED BY <3>1, <3>3 DEF Row, Revisions
    <2> QED BY <1>4, <2>1 DEF Clean
  <1>5. ASSUME NEW r \in Requests, pc[r] \in {"flush", "refresh"}, Fail(r)
        PROVE  SyncInv'
    BY <1>5 DEF Fail, Release
  <1>6. ASSUME NEW r \in Requests, Write(r)
        PROVE  SyncInv'
    <2>1. /\ notebook'[r] \in Row /\ pending'[r] \in Row
          /\ call[r].op = "sync" =>
                pending'[r].revision = notebook[r].revision + 1
      BY <1>6, WrittenRow
    <2> QED BY <1>6, <2>1 DEF Write, Updates
  <1>7. ASSUME NEW r \in Requests, FlushDelete(r)
        PROVE  SyncInv'
    BY <1>7 DEF FlushDelete
  <1>8. ASSUME NEW r \in Requests, ReadBack(r)
        PROVE  SyncInv'
    BY <1>8 DEF ReadBack, View
  <1>9. ASSUME NEW r \in Requests, Commit(r)
        PROVE  SyncInv'
    BY <1>9 DEF Commit, Release
  <1>10. ASSUME NEW rs \in SUBSET Requests, Forget(rs)
        PROVE  SyncInv'
    BY <1>10 DEF Forget
  <1> QED BY <1>1, <1>2, <1>3, <1>4, <1>5, <1>6, <1>7, <1>8, <1>9, <1>10
      DEF Step

\* Refresh reads back what the transaction wrote.
LEMMA AnswerStep ==
    TypeInv /\ PendingInv /\ AnswerInv /\ Step => AnswerInv'
  <1> SUFFICES ASSUME TypeInv, PendingInv, AnswerInv, Step PROVE AnswerInv'
    OBVIOUS
  <1> USE SentinelAssumption DEF TypeInv, TypeOK, CallInv, InTransaction,
          PendingInv, AnswerInv
  <1>1. CASE UNCHANGED vars
    BY <1>1 DEF vars
  <1>2. ASSUME NEW r \in Requests, NEW c \in CreateCalls, Insert(r, c)
        PROVE  AnswerInv'
    BY <1>2 DEF Insert, Open
  <1>3. ASSUME NEW r \in Requests, NEW c \in Calls, Lookup(r, c)
        PROVE  AnswerInv'
    BY <1>3 DEF Lookup
  <1>4. ASSUME NEW r \in Requests, Clean(r)
        PROVE  AnswerInv'
    BY <1>4 DEF Clean, Updates
  <1>5. ASSUME NEW r \in Requests, pc[r] \in {"flush", "refresh"}, Fail(r)
        PROVE  AnswerInv'
    BY <1>5 DEF Fail, Release
  <1>6. ASSUME NEW r \in Requests, Write(r)
        PROVE  AnswerInv'
    BY <1>6 DEF Write, Updates
  <1>7. ASSUME NEW r \in Requests, FlushDelete(r)
        PROVE  AnswerInv'
    BY <1>7 DEF FlushDelete
  <1>8. ASSUME NEW r \in Requests, ReadBack(r)
        PROVE  AnswerInv'
    BY <1>8 DEF ReadBack, View
  <1>9. ASSUME NEW r \in Requests, Commit(r)
        PROVE  AnswerInv'
    BY <1>9 DEF Commit, Release
  <1>10. ASSUME NEW rs \in SUBSET Requests, Forget(rs)
        PROVE  AnswerInv'
    BY <1>10 DEF Forget
  <1> QED BY <1>1, <1>2, <1>3, <1>4, <1>5, <1>6, <1>7, <1>8, <1>9, <1>10
      DEF Step

\* The metadata under an uncommitted rename does not move.
LEMMA RenameStep ==
    TypeInv /\ LockInv /\ PendingInv /\ RenameInv /\ Step => RenameInv'
  <1> SUFFICES ASSUME TypeInv, LockInv, PendingInv, RenameInv,
          Step PROVE RenameInv'
    OBVIOUS
  <1> USE SentinelAssumption DEF TypeInv, TypeOK, CallInv, InTransaction,
          LockInv, PendingInv, RenameInv
  <1>1. CASE UNCHANGED vars
    BY <1>1 DEF vars
  <1>2. ASSUME NEW r \in Requests, NEW c \in CreateCalls, Insert(r, c)
        PROVE  RenameInv'
    <2>1. /\ Inserted(c) \in Row
          /\ c \in Calls /\ c.nb \in Notebooks /\ c.op = "create"
      BY InsertedRow DEF Calls, CreateCalls
    <2> QED BY <1>2, <2>1 DEF Insert, Open
  <1>3. ASSUME NEW r \in Requests, NEW c \in Calls, Lookup(r, c)
        PROVE  RenameInv'
    BY <1>3 DEF Lookup
  <1>4. ASSUME NEW r \in Requests, Clean(r)
        PROVE  RenameInv'
    BY <1>4 DEF Clean, Updates
  <1>5. ASSUME NEW r \in Requests, pc[r] \in {"flush", "refresh"}, Fail(r)
        PROVE  RenameInv'
    BY <1>5 DEF Fail, Release
  <1>6. ASSUME NEW r \in Requests, Write(r)
        PROVE  RenameInv'
    <2>1. /\ call[r] \in Calls /\ call[r].nb \in Notebooks
          /\ call[r].op # "sync" =>
                /\ pending'[r].revision = View(r).revision
                /\ pending'[r].synced = View(r).synced
      BY <1>6, WrittenRow, CallKinds
    <2>2. call[r].op = "rename" => View(r) = rows[call[r].nb]
      BY <1>6 DEF Write, View
    <2> QED BY <1>6, <2>1, <2>2 DEF Write, Updates
  <1>7. ASSUME NEW r \in Requests, FlushDelete(r)
        PROVE  RenameInv'
    BY <1>7 DEF FlushDelete
  <1>8. ASSUME NEW r \in Requests, ReadBack(r)
        PROVE  RenameInv'
    BY <1>8 DEF ReadBack
  <1>9. ASSUME NEW r \in Requests, Commit(r)
        PROVE  RenameInv'
    BY <1>9 DEF Commit, Release
  <1>10. ASSUME NEW rs \in SUBSET Requests, Forget(rs)
        PROVE  RenameInv'
    BY <1>10 DEF Forget
  <1> QED BY <1>1, <1>2, <1>3, <1>4, <1>5, <1>6, <1>7, <1>8, <1>9, <1>10
      DEF Step

\* A row whose delete is past its flush does not come back.
LEMMA DeleteStep ==
    TypeInv /\ LockInv /\ PendingInv /\ UpdateInv /\ CreateInv
        /\ DeleteInv /\ Step
        => DeleteInv'
  <1> SUFFICES ASSUME TypeInv, LockInv, PendingInv, UpdateInv, CreateInv,
          DeleteInv, Step PROVE DeleteInv'
    OBVIOUS
  <1> USE SentinelAssumption DEF TypeInv, TypeOK, CallInv, InTransaction,
          LockInv, PendingInv, UpdateInv, CreateInv, DeleteInv
  <1>1. CASE UNCHANGED vars
    BY <1>1 DEF vars, Deleted
  <1>2. ASSUME NEW r \in Requests, NEW c \in CreateCalls, Insert(r, c)
        PROVE  DeleteInv'
    BY <1>2 DEF Insert, Open, Deleted
  <1>3. ASSUME NEW r \in Requests, NEW c \in Calls, Lookup(r, c)
        PROVE  DeleteInv'
    BY <1>3 DEF Lookup, Deleted
  <1>4. ASSUME NEW r \in Requests, Clean(r)
        PROVE  DeleteInv'
    BY <1>4 DEF Clean, Updates, Deleted
  <1>5. ASSUME NEW r \in Requests, pc[r] \in {"flush", "refresh"}, Fail(r)
        PROVE  DeleteInv'
    BY <1>5 DEF Fail, Release, Deleted
  <1>6. ASSUME NEW r \in Requests, Write(r)
        PROVE  DeleteInv'
    BY <1>6 DEF Write, Updates, Deleted
  <1>7. ASSUME NEW r \in Requests, FlushDelete(r)
        PROVE  DeleteInv'
    BY <1>7 DEF FlushDelete, Deleted
  <1>8. ASSUME NEW r \in Requests, ReadBack(r)
        PROVE  DeleteInv'
    BY <1>8 DEF ReadBack, Deleted
  <1>9. ASSUME NEW r \in Requests, Commit(r)
        PROVE  DeleteInv'
    <2>1. call[r] \in Calls /\ call[r].nb \in Notebooks
      BY <1>9, CallKinds DEF Commit
    <2>2. ASSUME NEW q \in Requests, q # r, call[q].nb = call[r].nb,
                 pc'[q] # "idle", rows[call[q].nb] = Absent,
                 Deleted(q) \/ InTransaction(q)
          PROVE  rows'[call[q].nb] = Absent
      BY <1>9, <2>1, <2>2 DEF Commit, Deleted
    <2>3. ASSUME NEW q \in Requests, q # r, call[q].nb # call[r].nb
          PROVE  rows'[call[q].nb] = rows[call[q].nb]
      BY <1>9, <2>1, <2>3 DEF Commit
    <2>4. call[r].op = "delete" => rows'[call[r].nb] = Absent
      BY <1>9, <2>1 DEF Commit
    <2> QED BY <1>9, <2>1, <2>2, <2>3, <2>4 DEF Commit, Release, Deleted
  <1>10. ASSUME NEW rs \in SUBSET Requests, Forget(rs)
        PROVE  DeleteInv'
    BY <1>10 DEF Forget, Deleted
  <1> QED BY <1>1, <1>2, <1>3, <1>4, <1>5, <1>6, <1>7, <1>8, <1>9, <1>10
      DEF Step

-----------------------------------------------------------------------------
(***************************************************************************)
(* The theorems.                                                           *)
(***************************************************************************)

\* The types are part of the invariant.
LEMMA TypesOfInv == IInv => TypeInv
  BY DEF IInv, TypeInv

\* The invariant holds at the start.
LEMMA InitInv == Init => IInv
  BY TypeInit, SentinelAssumption
     DEF Init, TypeInv, IInv, CallInv, IssuedInv, LockInv, PendingInv,
         UpdateInv, CreateInv, OwnerInv, VersionInv, SyncInv, AnswerInv,
         RenameInv, DeleteInv, InTransaction, Deleted

\* Every step preserves the invariant.
LEMMA InvStep == IInv /\ [Next]_vars => IInv'
  BY NextSteps, TypeStep, IssuedStep, LockStep, PendingStep, UpdateStep,
     CreateStep, OwnerStep, VersionStep, SyncStep, AnswerStep, RenameStep,
     DeleteStep, TypesOfInv
     DEF IInv, TypeInv

\* The inductive invariant: what is locked, written, loaded and answered by
\* the requests in flight fits the committed rows, in every interleaving.
THEOREM InvariantHolds == Spec => []IInv
  <1> QED BY InitInv, InvStep, PTL DEF Spec

\* A committed row carries its own id inside its snapshot.
THEOREM SnapshotIds == Spec => []SnapshotIdMatchesRow
  <1>1. IInv => SnapshotIdMatchesRow
    BY DEF IInv, VersionInv, SnapshotIdMatchesRow
  <1> QED BY <1>1, InvariantHolds, PTL

\* A row was synced exactly when its revision has left 1.
THEOREM SyncedRows == Spec => []SyncedIffAdvanced
  <1>1. IInv => SyncedIffAdvanced
    BY DEF IInv, VersionInv, SyncedIffAdvanced, Coherent
  <1> QED BY <1>1, InvariantHolds, PTL

\* A successful sync answers the revision after its base.
THEOREM SyncAnswers == Spec => []SyncAnswersNextRevision
  <1>1. IInv => SyncAnswersNextRevision
    BY DEF IInv, SyncInv, SyncAnswersNextRevision
  <1> QED BY <1>1, InvariantHolds, PTL

\* After a successful delete is answered there is no row.
THEOREM DeletesHold == Spec => []DeletedIsGone
  <1>1. IInv => DeletedIsGone
    BY DEF IInv, DeleteInv, DeletedIsGone, Deleted
  <1> QED BY <1>1, InvariantHolds, PTL

\* The rows change in a commit only, and what Commits names is one.
LEMMA CommitSteps ==
    ASSUME TypeInv, Step
    PROVE  /\ \A r \in Requests : Commits(r) => Commit(r)
           /\ rows' # rows => \E r \in Requests : Commit(r) /\ Commits(r)
  <1> USE DEF TypeInv, TypeOK, Commits
  <1>1. CASE UNCHANGED vars
    BY <1>1 DEF vars
  <1>2. ASSUME NEW r \in Requests, NEW c \in CreateCalls, Insert(r, c)
        PROVE  rows' = rows /\ \A q \in Requests : ~Commits(q)
    BY <1>2 DEF Insert, Open
  <1>3. ASSUME NEW r \in Requests, NEW c \in Calls, Lookup(r, c)
        PROVE  rows' = rows /\ \A q \in Requests : ~Commits(q)
    BY <1>3 DEF Lookup
  <1>4. ASSUME NEW r \in Requests,
               \/ Clean(r) \/ Write(r) \/ FlushDelete(r) \/ ReadBack(r)
               \/ pc[r] \in {"flush", "refresh"} /\ Fail(r)
        PROVE  rows' = rows /\ \A q \in Requests : ~Commits(q)
    BY <1>4 DEF Clean, Write, FlushDelete, ReadBack, Fail
  <1>5. ASSUME NEW r \in Requests, Commit(r)
        PROVE  Commits(r) /\ \A q \in Requests : Commits(q) => q = r
    BY <1>5 DEF Commit
  <1>6. ASSUME NEW rs \in SUBSET Requests, Forget(rs)
        PROVE  rows' = rows /\ \A q \in Requests : ~Commits(q)
    BY <1>6 DEF Forget
  <1> QED BY <1>1, <1>2, <1>3, <1>4, <1>5, <1>6 DEF Step

\* What a commit does to the rows.
LEMMA CommitRows ==
    ASSUME TypeInv, NEW r \in Requests, Commit(r)
    PROVE  /\ call[r] \in Calls /\ call[r].nb \in Notebooks
           /\ \A n \in Notebooks : n # call[r].nb => rows'[n] = rows[n]
           /\ pending[r] = None => rows' = rows
           /\ pending[r] # None => rows'[call[r].nb] = pending[r]
  <1>1. call[r] \in Calls /\ call[r].nb \in Notebooks
    BY CallKinds DEF TypeInv, CallInv, Commit
  <1> QED BY <1>1 DEF Commit, TypeInv, TypeOK

\* Rows change only by commits of their owners, and keep them.
THEOREM OwnersWrite == Spec => OnlyTheOwnerWrites
  <1>1. TypeInv /\ IInv /\ [Next]_vars => [ChangesAreTheOwners]_vars
    <2> SUFFICES ASSUME TypeInv, IInv, Step, NEW n \in Notebooks,
                        rows[n] # Absent, rows'[n] # rows[n]
                 PROVE  /\ \E r \in Requests : /\ Commits(r)
                                               /\ call[r].nb = n
                                               /\ call[r].user = rows[n].owner
                        /\ rows'[n] # Absent =>
                                rows'[n].owner = rows[n].owner
      BY NextSteps DEF ChangesAreTheOwners
    <2>1. PICK r \in Requests : Commit(r) /\ Commits(r)
      BY CommitSteps
    <2>2. call[r].nb = n /\ pending[r] # None /\ rows'[n] = pending[r]
      BY <2>1, CommitRows
    <2>3. rows[n].owner = call[r].user
      BY <2>1, <2>2 DEF IInv, OwnerInv, InTransaction, Commit
    <2>4. pending[r] # Absent => pending[r].owner = call[r].user
      BY <2>2 DEF IInv, OwnerInv
    <2> QED BY <2>1, <2>2, <2>3, <2>4
  <1> QED BY <1>1, InvariantHolds, TypesOfInv, PTL
          DEF Spec, OnlyTheOwnerWrites, TypeInv

\* A row that is not there appears only by a create.
THEOREM NoRowReturns == Spec => NoResurrection
  <1>1. TypeInv /\ IInv /\ [Next]_vars => [NewRowsAreCreated]_vars
    <2> SUFFICES ASSUME TypeInv, IInv, Step, NEW n \in Notebooks,
                        rows[n] = Absent, rows'[n] # Absent
                 PROVE  \E r \in Requests : /\ Commits(r)
                                            /\ call[r].nb = n
                                            /\ call[r].op = "create"
      BY NextSteps DEF NewRowsAreCreated
    <2>1. PICK r \in Requests : Commit(r) /\ Commits(r)
      BY CommitSteps
    <2>2. call[r].nb = n /\ pending[r] # None
      BY <2>1, CommitRows
    <2>3. call[r].op = "create"
      BY <2>2 DEF IInv, UpdateInv
    <2> QED BY <2>1, <2>2, <2>3
  <1> QED BY <1>1, InvariantHolds, TypesOfInv, PTL
          DEF Spec, NoResurrection, TypeInv

\* A rename commits the revision and last_synced_at it finds.
THEOREM RenamesAreMetadata == Spec => RenameKeepsRevision
  <1>1. TypeInv /\ IInv /\ [Next]_vars => [RenamesKeepRevision]_vars
    <2> SUFFICES ASSUME TypeInv, IInv, Step, NEW r \in Requests, Commits(r),
                        call[r].op = "rename", rows[call[r].nb] # Absent
                 PROVE  /\ rows'[call[r].nb] # Absent
                        /\ rows'[call[r].nb].revision
                                = rows[call[r].nb].revision
                        /\ rows'[call[r].nb].synced = rows[call[r].nb].synced
      BY NextSteps DEF RenamesKeepRevision
    <2>1. Commit(r)
      BY CommitSteps
    <2>2. CASE pending[r] = None
      BY <2>1, <2>2, CommitRows
    <2>3. CASE pending[r] # None
      <3>1. rows'[call[r].nb] = pending[r]
        BY <2>1, <2>3, CommitRows
      <3> QED BY <2>3, <3>1 DEF IInv, RenameInv, PendingInv
    <2> QED BY <2>2, <2>3
  <1> QED BY <1>1, InvariantHolds, TypesOfInv, PTL
          DEF Spec, RenameKeepsRevision, TypeInv

\* The answer to a write is the row it commits.
THEOREM AnswersHold == Spec => AnswerIsTheCommittedRow
  <1>1. TypeInv /\ IInv /\ [Next]_vars => [AnswersAreCommitted]_vars
    <2> SUFFICES ASSUME TypeInv, IInv, Step, NEW r \in Requests, Commits(r),
                        pending[r] \notin {None, Absent}
                 PROVE  notebook'[r] = rows'[call[r].nb]
      BY NextSteps DEF AnswersAreCommitted
    <2>1. Commit(r)
      BY CommitSteps
    <2>2. rows'[call[r].nb] = pending[r] /\ notebook' = notebook
      BY <2>1, CommitRows DEF Commit
    <2> QED BY <2>1, <2>2 DEF IInv, AnswerInv, Commit
  <1> QED BY <1>1, InvariantHolds, TypesOfInv, PTL
          DEF Spec, AnswerIsTheCommittedRow, TypeInv

=============================================================================
