------------------------ MODULE NotebookSerialProofs ------------------------
(***************************************************************************)
(* NotebookSerial implements NotebookAtomic, for any values of the         *)
(* constants: requests that are past their checks one at a time per        *)
(* notebook are atomic.                                                    *)
(***************************************************************************)
EXTENDS NotebookSerial, NotebookStoreProofs

\* The whole invariant of a serial execution.
FullInv == TypeInv /\ IInv /\ SerialInv

LEMMA SerialInit == Init => FullInv
  BY InitInv, TypesOfInv
     DEF Init, FullInv, SerialInv, NoOverlap, UndisturbedInv, InTransaction

\* Writing to the row that was loaded gives the object that was assigned.
LEMMA UndisturbedWrite ==
    ASSUME TypeInv, NEW r \in Requests, Write(r),
           View(r) = notebook[r]
    PROVE  /\ pending'[r] = Assigned(call[r], notebook[r])
           /\ notebook'[r] = Assigned(call[r], notebook[r])
  <1> DEFINE new == Assigned(call[r], notebook[r])
  <1>1. /\ new \in Row /\ notebook[r] \in Row
        /\ notebook'[r] = new
        /\ pending'[r] = UpdateColumns(notebook[r], notebook[r], new,
                                       call[r].op = "sync")
    BY WrittenRow DEF Write, TypeInv, TypeOK, CallInv, InTransaction
  <1>2. call[r].op # "sync" => new.synced = notebook[r].synced
    BY WrittenRow, <1>1
  <1>3. new.owner = notebook[r].owner
    <2>1. /\ call[r] \in Calls
          /\ call[r].op \in {"create", "rename", "sync"}
      BY WrittenRow DEF Write, Updates
    <2> QED BY ONLY <1>1, <2>1, AssignedRow
  <1> HIDE DEF new
  <1>4. pending'[r] = new
    <2>1. pending'[r] \in Row
      BY WrittenRow
    <2>2. /\ pending'[r].owner = new.owner
          /\ pending'[r].title = new.title
          /\ pending'[r].snapshot = new.snapshot
          /\ pending'[r].revision = new.revision
          /\ pending'[r].synced = new.synced
      BY <1>1, <1>2, <1>3 DEF UpdateColumns, Row
    <2> QED BY <1>1, <2>1, <2>2 DEF Row
  <1> QED BY <1>1, <1>4 DEF new

\* Every serial step preserves the invariant.
LEMMA SerialStep == FullInv /\ [SerialNext]_vars => FullInv'
  <1> SUFFICES ASSUME FullInv, [SerialNext]_vars PROVE FullInv'
    OBVIOUS
  <1> SUFFICES UndisturbedInv' /\ NoOverlap'
    <2>1. IInv'
      BY InvStep DEF FullInv, SerialNext
    <2>2. TypeInv'
      BY <2>1 DEF IInv, TypeInv
    <2> QED BY <2>1, <2>2 DEF FullInv, SerialInv
  <1>0. NoOverlap'
    BY DEF SerialNext, FullInv, SerialInv, NoOverlap, InTransaction, vars
  <1> SUFFICES ASSUME Step PROVE UndisturbedInv'
    BY <1>0, NextSteps DEF SerialNext
  <1> USE SentinelAssumption
      DEF FullInv, SerialInv, NoOverlap, UndisturbedInv, TypeInv, TypeOK,
          CallInv, IInv, PendingInv, InTransaction, View
  <1>1. CASE UNCHANGED vars
    BY <1>1 DEF vars
  <1>2. ASSUME NEW r \in Requests, NEW c \in CreateCalls, Insert(r, c)
        PROVE  UndisturbedInv'
    <2>1. c \in Calls /\ c.op = "create"
      BY DEF Calls, CreateCalls
    <2> QED BY <1>2, <2>1 DEF Insert, Open
  <1>3. ASSUME NEW r \in Requests, NEW c \in Calls, Lookup(r, c)
        PROVE  UndisturbedInv'
    <2>1. GetOwned(c.user, c.nb) # Absent => GetOwned(c.user, c.nb) = rows[c.nb]
      BY CallKinds, GetOwnedRow
    <2> QED BY <1>3, <2>1 DEF Lookup
  <1>4. ASSUME NEW r \in Requests, Clean(r)
        PROVE  UndisturbedInv'
    BY <1>4 DEF Clean, Updates
  <1>5. ASSUME NEW r \in Requests, pc[r] \in {"flush", "refresh"}, Fail(r)
        PROVE  UndisturbedInv'
    BY <1>5 DEF Fail, Release
  <1>6. ASSUME NEW r \in Requests, Write(r)
        PROVE  UndisturbedInv'
    <2>1. View(r) = notebook[r]
      BY <1>6 DEF Write, Updates
    <2>2. /\ pending'[r] = Assigned(call[r], notebook[r])
          /\ pending'[r] \in Row
      BY <1>6, <2>1, UndisturbedWrite, WrittenRow
    <2> QED BY <1>6, <2>1, <2>2 DEF Write, Updates
  <1>7. ASSUME NEW r \in Requests, FlushDelete(r)
        PROVE  UndisturbedInv'
    BY <1>7 DEF FlushDelete
  <1>8. ASSUME NEW r \in Requests, ReadBack(r)
        PROVE  UndisturbedInv'
    BY <1>8 DEF ReadBack
  <1>9. ASSUME NEW r \in Requests, Commit(r)
        PROVE  UndisturbedInv'
    <2>1. /\ call[r].nb \in Notebooks
          /\ \A n \in Notebooks : n # call[r].nb => rows'[n] = rows[n]
      BY <1>9, CommitRows
    <2>2. \A q \in Requests : q # r /\ InTransaction(q)
                => /\ call[q].nb # call[r].nb
                   /\ call[q].nb \in Notebooks
      BY <1>9, CallKinds DEF Commit
    <2>3. \A q \in Requests : q # r /\ InTransaction(q)
                => rows'[call[q].nb] = rows[call[q].nb]
      BY <2>1, <2>2
    <2> QED BY <1>9, <2>3 DEF Commit, Release
  <1>10. ASSUME NEW rs \in SUBSET Requests, Forget(rs)
         PROVE  UndisturbedInv'
    BY <1>10 DEF Forget
  <1> QED BY <1>1, <1>2, <1>3, <1>4, <1>5, <1>6, <1>7, <1>8, <1>9, <1>10
          DEF Step

\* Both modules take their values from NotebookData.
LEMMA SameValues == Atomic!Row = Row /\ Atomic!Calls = Calls
  BY DEF Row, Snapshot, Revisions, Calls, CreateCalls, GetCalls, RenameCalls,
         DeleteCalls, SyncCalls, SentSnapshot, Atomic!Row, Atomic!Snapshot,
         Atomic!Revisions, Atomic!Calls, Atomic!CreateCalls, Atomic!GetCalls,
         Atomic!RenameCalls, Atomic!DeleteCalls, Atomic!SyncCalls,
         Atomic!SentSnapshot

-----------------------------------------------------------------------------
(***************************************************************************)
(* The refinement, step by step.                                           *)
(***************************************************************************)

MapPhase == [r \in Requests |-> Phase(r)]
MapAnswer == [r \in Requests |-> Answer(r)]

\* A step inside a transaction changes nothing that the atomic service shows.
LEMMA InnerStep ==
    ASSUME TypeInv, NEW r \in Requests,
           Clean(r) \/ Write(r) \/ FlushDelete(r) \/ ReadBack(r)
    PROVE  UNCHANGED <<rows, MapPhase, call, MapAnswer>>
  <1>1. /\ pc[r] \in {"flush", "refresh"} /\ pc'[r] \in {"refresh", "commit"}
        /\ \A q \in Requests : q # r => pc'[q] = pc[q] /\ notebook'[q] = notebook[q]
        /\ UNCHANGED <<rows, call, result>>
    BY DEF Clean, Write, FlushDelete, ReadBack, TypeInv, TypeOK
  <1>2. \A q \in Requests : Phase(q)' = Phase(q)
    BY <1>1 DEF Phase, InTransaction
  <1>3. \A q \in Requests : Answer(q)' = Answer(q)
    BY <1>1 DEF Answer
  <1> QED BY <1>1, <1>2, <1>3 DEF MapPhase, MapAnswer

\* A request that reaches its answer shows it, and the others do not change.
LEMMA AnsweredStep ==
    ASSUME TypeInv, NEW r \in Requests, NEW s, NEW row,
           pc' = [pc EXCEPT ![r] = "reply"],
           result' = [result EXCEPT ![r] = s],
           notebook' = [notebook EXCEPT ![r] = row]
    PROVE  /\ MapPhase' = [MapPhase EXCEPT ![r] = "done"]
           /\ MapAnswer' = [MapAnswer EXCEPT ![r] = [status |-> s, row |-> row]]
  <1>1. /\ pc'[r] = "reply" /\ result'[r] = s /\ notebook'[r] = row
        /\ \A q \in Requests : q # r => /\ pc'[q] = pc[q]
                                        /\ notebook'[q] = notebook[q]
                                        /\ result'[q] = result[q]
    BY DEF TypeInv, TypeOK
  <1>2. /\ Phase(r)' = "done"
        /\ \A q \in Requests : q # r => Phase(q)' = Phase(q)
    BY <1>1 DEF Phase, InTransaction
  <1>3. /\ Answer(r)' = [status |-> s, row |-> row]
        /\ \A q \in Requests : q # r => Answer(q)' = Answer(q)
    BY <1>1 DEF Answer
  <1> QED BY <1>2, <1>3 DEF MapPhase, MapAnswer

\* A request that goes past its checks is running, and shows no answer yet.
LEMMA AcceptedStep ==
    ASSUME TypeInv, NEW r \in Requests, pc[r] = "idle",
           pc' = [pc EXCEPT ![r] = "flush"],
           NEW s, result' = [result EXCEPT ![r] = s],
           NEW row, notebook' = [notebook EXCEPT ![r] = row]
    PROVE  /\ MapPhase[r] = "idle"
           /\ MapPhase' = [MapPhase EXCEPT ![r] = "running"]
           /\ MapAnswer' = MapAnswer
  <1>1. /\ pc'[r] = "flush"
        /\ \A q \in Requests : q # r => /\ pc'[q] = pc[q]
                                        /\ notebook'[q] = notebook[q]
                                        /\ result'[q] = result[q]
    BY DEF TypeInv, TypeOK
  <1>2. /\ Phase(r) = "idle" /\ Phase(r)' = "running"
        /\ \A q \in Requests : q # r => Phase(q)' = Phase(q)
    BY <1>1 DEF Phase, InTransaction
  <1>3. \A q \in Requests : Answer(q)' = Answer(q)
    BY <1>1 DEF Answer
  <1> QED BY <1>2, <1>3 DEF MapPhase, MapAnswer

\* align_snapshot makes the document that the atomic service promises.
LEMMA AlignedDocument ==
    ASSUME NEW s \in Snapshot, NEW n \in Notebooks, NEW t \in Titles
    PROVE  AlignSnapshot(s, n, t) = Atomic!Document(n, t, s.body)
  <1>1. Atomic!Document(n, t, s.body) \in Snapshot
    BY DEF Atomic!Document, Snapshot
  <1>2. AlignSnapshot(s, n, t) \in Snapshot
    BY AlignedSnapshot
  <1>3. /\ AlignSnapshot(s, n, t).id = Atomic!Document(n, t, s.body).id
        /\ AlignSnapshot(s, n, t).title = Atomic!Document(n, t, s.body).title
        /\ AlignSnapshot(s, n, t).body = Atomic!Document(n, t, s.body).body
    BY AlignedSnapshot DEF Atomic!Document
  <1> QED BY <1>1, <1>2, <1>3 DEF Snapshot

\* The commit of a serial request is its one atomic effect.
LEMMA CommitStep ==
    ASSUME FullInv, NEW r \in Requests, Commit(r)
    PROVE  Atomic!Execute(r)
  <1> DEFINE c   == call[r]
             old == rows[c.nb]
             row == notebook[r]
  <1>1. /\ c \in Calls /\ c.nb \in Notebooks
        /\ c.op \in {"create", "rename", "delete", "sync"}
        /\ row \in Row
        /\ rows \in [Notebooks -> Row \cup {Absent}]
    BY CallKinds DEF Commit, FullInv, TypeInv, TypeOK, CallInv, InTransaction
  <1>2. /\ MapPhase[r] = "running"
        /\ MapPhase' = [MapPhase EXCEPT ![r] = "done"]
        /\ MapAnswer' = [MapAnswer EXCEPT ![r] = [status |-> "ok", row |-> row]]
    <2>1. notebook' = [notebook EXCEPT ![r] = row]
      BY DEF Commit, FullInv, TypeInv, TypeOK
    <2>2. Phase(r) = "running"
      BY DEF Commit, Phase, InTransaction
    <2>3. MapPhase[r] = "running"
      BY <2>2 DEF MapPhase
    <2> QED BY <2>1, <2>3, AnsweredStep DEF Commit, FullInv
  <1>3. rows' = [rows EXCEPT ![c.nb] = View(r)]
    BY <1>1 DEF Commit, View
  <1>4. c.op # "create" => old \in Row /\ old.owner = c.user
    BY <1>1 DEF FullInv, SerialInv, UndisturbedInv, IInv, OwnerInv, Commit,
                InTransaction
  <1>5. CASE c.op = "create"
    <2>1. c \in CreateCalls
      BY <1>1, <1>5, CallKinds
    <2>2. old = Absent /\ row = View(r) /\ View(r) = Assigned(c, Inserted(c))
      BY <1>1, <1>5, SentinelAssumption
         DEF FullInv, SerialInv, UndisturbedInv, IInv, CreateInv, PendingInv,
             Commit, InTransaction, View
    <2>3. c.sent \in Snapshot /\ c.title \in Titles
      BY <2>1 DEF CreateCalls, SentSnapshot, Snapshot
    <2>4. row = [owner |-> c.user, title |-> c.title,
                 snapshot |-> Atomic!Document(c.nb, c.title, c.sent.body),
                 revision |-> 1, synced |-> FALSE]
      BY <1>5, <2>1, <2>2, <2>3
         DEF Assigned, Inserted, AlignSnapshot, Atomic!Document, Snapshot
    <2> QED BY <1>2, <1>3, <1>5, <2>2, <2>4
            DEF Atomic!Execute, Atomic!ACreate, Atomic!Done, Commit,
                MapPhase, MapAnswer
  <1>6. CASE c.op = "rename"
    <2>1. c \in RenameCalls
      BY <1>1, <1>6, CallKinds
    <2>2. row = View(r) /\ View(r) = Assigned(c, old)
      BY <1>6 DEF FullInv, SerialInv, UndisturbedInv, Commit
    <2>3. old.snapshot \in Snapshot /\ c.title \in Titles
      BY <1>4, <1>6, <2>1 DEF RenameCalls, Row
    <2>4. row = [old EXCEPT
                   !.title = c.title,
                   !.snapshot = Atomic!Document(c.nb, c.title,
                                                old.snapshot.body)]
      <3>1. AlignSnapshot(old.snapshot, c.nb, c.title)
                = Atomic!Document(c.nb, c.title, old.snapshot.body)
        BY <1>1, <2>3, AlignedDocument
      <3>2. Assigned(c, old) =
                [old EXCEPT !.title = c.title,
                            !.snapshot = AlignSnapshot(old.snapshot, c.nb,
                                                       c.title)]
        BY <1>4, <1>6 DEF Assigned, Row
      <3> QED BY <2>2, <3>1, <3>2
    <2>5. Atomic!Owned(c.user, c.nb) = old /\ old # Absent
      BY <1>4, <1>6, SentinelAssumption DEF Atomic!Owned
    <2> QED BY <1>2, <1>3, <1>6, <2>2, <2>4, <2>5
            DEF Atomic!Execute, Atomic!ARename, Atomic!Done, Commit,
                MapPhase, MapAnswer
  <1>7. CASE c.op = "sync"
    <2>1. c \in SyncCalls
      BY <1>1, <1>7, CallKinds
    <2>2. row = View(r) /\ View(r) = Assigned(c, old)
      BY <1>7 DEF FullInv, SerialInv, UndisturbedInv, Commit
    <2>3. row.revision = c.base + 1
      BY <1>7 DEF FullInv, IInv, SyncInv, Commit
    <2>4. c.sent \in Snapshot /\ c.sent.title \in Titles /\ c.base \in Int
      BY <2>1 DEF SyncCalls, SentSnapshot, Snapshot, Revisions
    <2>5. /\ row = [owner |-> c.user, title |-> c.sent.title,
                    snapshot |-> Atomic!Document(c.nb, c.sent.title,
                                                 c.sent.body),
                    revision |-> c.base + 1, synced |-> TRUE]
          /\ old.revision = c.base
      <3>1. AlignSnapshot(c.sent, c.nb, c.sent.title)
                = Atomic!Document(c.nb, c.sent.title, c.sent.body)
        BY <1>1, <2>4, AlignedDocument
      <3>2. row = [old EXCEPT !.title = c.sent.title,
                              !.snapshot = AlignSnapshot(c.sent, c.nb,
                                                         c.sent.title),
                              !.revision = old.revision + 1,
                              !.synced = TRUE]
        BY <1>4, <1>7, <2>2 DEF Assigned, Row
      <3>3. old.revision \in Int
        BY <1>4, <1>7 DEF Row, Revisions
      <3>4. old.revision = c.base
        BY <1>4, <1>7, <2>3, <2>4, <3>2, <3>3 DEF Row
      <3> QED BY <1>4, <1>7, <3>1, <3>2, <3>4 DEF Row
    <2>6. Atomic!Owned(c.user, c.nb) = old /\ old # Absent
      BY <1>4, <1>7, SentinelAssumption DEF Atomic!Owned
    <2> QED BY <1>2, <1>3, <1>7, <2>2, <2>5, <2>6
            DEF Atomic!Execute, Atomic!ASync, Atomic!Done, Commit,
                MapPhase, MapAnswer
  <1>8. CASE c.op = "delete"
    <2>1. row = old /\ View(r) = Absent
      BY <1>8, SentinelAssumption
         DEF FullInv, SerialInv, UndisturbedInv, Commit, InTransaction, View
    <2>2. Atomic!Owned(c.user, c.nb) = old /\ old # Absent
      BY <1>4, <1>8, SentinelAssumption DEF Atomic!Owned
    <2> QED BY <1>2, <1>3, <1>8, <2>1, <2>2
            DEF Atomic!Execute, Atomic!ADelete, Atomic!Done, Commit,
                MapPhase, MapAnswer
  <1> QED BY <1>1, <1>5, <1>6, <1>7, <1>8

\* Every serial step is a step of the atomic service, or shows nothing.
LEMMA AtomicStep ==
    FullInv /\ [SerialNext]_vars =>
        [Atomic!ANext]_<<rows, MapPhase, call, MapAnswer>>
  <1> SUFFICES ASSUME FullInv, Step, [SerialNext]_vars
               PROVE  [Atomic!ANext]_<<rows, MapPhase, call, MapAnswer>>
    BY NextSteps DEF SerialNext
  <1> USE DEF FullInv
  <1>1. CASE UNCHANGED vars
    BY <1>1 DEF vars, MapPhase, MapAnswer, Phase, Answer, InTransaction
  <1>2. ASSUME NEW r \in Requests, NEW c \in CreateCalls, Insert(r, c)
        PROVE  Atomic!Accept(r, c) /\ c \in Calls
    <2>1. /\ MapPhase[r] = "idle"
          /\ MapPhase' = [MapPhase EXCEPT ![r] = "running"]
          /\ MapAnswer' = MapAnswer
      BY <1>2, AcceptedStep DEF Insert, Open
    <2> QED BY <1>2, <2>1 DEF Insert, Open, Atomic!Accept, Calls,
                              MapPhase, MapAnswer
  <1>3. ASSUME NEW r \in Requests, NEW c \in Calls, Lookup(r, c)
        PROVE  Atomic!Accept(r, c) \/ Atomic!AnswerAtOnce(r, c)
    <2> DEFINE row == GetOwned(c.user, c.nb)
    <2>1. Atomic!Owned(c.user, c.nb) = row
      BY DEF Atomic!Owned, GetOwned
    <2>2. CASE pc' = [pc EXCEPT ![r] = "flush"]
      <3>1. /\ MapPhase[r] = "idle"
            /\ MapPhase' = [MapPhase EXCEPT ![r] = "running"]
            /\ MapAnswer' = MapAnswer
        BY <1>3, <2>2, AcceptedStep DEF Lookup, TypeInv, TypeOK
      <3> QED BY <1>3, <3>1 DEF Lookup, Atomic!Accept, MapPhase, MapAnswer
    <2>3. ASSUME NEW s, pc' = [pc EXCEPT ![r] = "reply"],
                 result' = [result EXCEPT ![r] = s]
          PROVE  /\ MapPhase[r] = "idle"
                 /\ MapPhase' = [MapPhase EXCEPT ![r] = "done"]
                 /\ MapAnswer' = [MapAnswer EXCEPT
                                    ![r] = [status |-> s, row |-> row]]
      <3>1. MapPhase[r] = "idle"
        BY <1>3 DEF Lookup, MapPhase, Phase, InTransaction
      <3>2. notebook' = [notebook EXCEPT ![r] = row]
        BY <1>3 DEF Lookup
      <3> HIDE DEF row
      <3> QED BY <2>3, <3>1, <3>2, AnsweredStep
    <2>4. CASE pc' = [pc EXCEPT ![r] = "reply"]
      <3> HIDE DEF row
      <3>1. \/ row = Absent /\ result' = [result EXCEPT ![r] = "not_found"]
            \/ /\ row # Absent /\ c.op = "get"
               /\ result' = [result EXCEPT ![r] = "ok"]
            \/ /\ row # Absent /\ c.op = "sync" /\ c.base # row.revision
               /\ result' = [result EXCEPT ![r] = "conflict"]
        BY <1>3, <2>4 DEF Lookup, TypeInv, TypeOK, row
      <3> QED BY <1>3, <2>1, <2>3, <2>4, <3>1
              DEF Lookup, Atomic!AnswerAtOnce, Atomic!Done, MapPhase, MapAnswer
    <2> QED BY <1>3, <2>2, <2>4 DEF Lookup
  <1>4. ASSUME NEW r \in Requests,
               Clean(r) \/ Write(r) \/ FlushDelete(r) \/ ReadBack(r)
        PROVE  UNCHANGED <<rows, MapPhase, call, MapAnswer>>
    BY <1>4, InnerStep
  <1>5. ASSUME NEW r \in Requests, pc[r] \in {"flush", "refresh"}, Fail(r)
        PROVE  Atomic!AFail(r)
    <2>1. notebook' = [notebook EXCEPT ![r] = notebook[r]]
      BY <1>5 DEF Fail, TypeInv, TypeOK
    <2>2. /\ MapPhase' = [MapPhase EXCEPT ![r] = "done"]
          /\ MapAnswer' = [MapAnswer EXCEPT ![r] =
                              [status |-> "error", row |-> notebook[r]]]
      BY <1>5, <2>1, AnsweredStep DEF Fail
    <2>3. MapPhase[r] = "running" /\ notebook[r] \in Row
      BY <1>5 DEF MapPhase, Phase, InTransaction, TypeInv, CallInv
    <2>4. Atomic!Done(r, "error", notebook[r])
      BY <2>2 DEF Atomic!Done, MapPhase, MapAnswer
    <2>5. UNCHANGED <<rows, call>>
      BY <1>5 DEF Fail
    <2>6. \E row \in Row : Atomic!Done(r, "error", row)
      BY <2>3, <2>4
    <2> QED BY <2>3, <2>5, <2>6, SameValues DEF Atomic!AFail, MapPhase
  <1>6. ASSUME NEW r \in Requests, Commit(r)
        PROVE  Atomic!Execute(r)
    BY <1>6, CommitStep
  <1>7. ASSUME NEW rs \in SUBSET Requests, Forget(rs)
        PROVE  Atomic!AForget(rs)
    <2>0. \A q \in Requests :
             /\ pc'[q] = IF q \in rs THEN "idle" ELSE pc[q]
             /\ q \notin rs => /\ notebook'[q] = notebook[q]
                              /\ result'[q] = result[q]
      BY <1>7 DEF Forget
    <2>1. \A q \in Requests :
             /\ Phase(q)' = IF q \in rs THEN "idle" ELSE Phase(q)
             /\ Answer(q)' = IF q \in rs THEN [status |-> "none", row |-> Absent]
                                         ELSE Answer(q)
      BY <2>0 DEF Phase, Answer, InTransaction, TypeInv, TypeOK
    <2> QED BY <1>7, <2>1 DEF Forget, Atomic!AForget, Atomic!NoAnswer
  <1>8. ASSUME NEW r \in Requests, NEW c \in Calls,
               Atomic!Accept(r, c) \/ Atomic!AnswerAtOnce(r, c)
        PROVE  Atomic!ANext
    BY <1>8, SameValues DEF Atomic!ANext
  <1>9. ASSUME NEW r \in Requests, Atomic!Execute(r) \/ Atomic!AFail(r)
        PROVE  Atomic!ANext
    BY ONLY <1>9 DEF Atomic!ANext
  <1>10. ASSUME NEW rs \in SUBSET Requests, Atomic!AForget(rs)
         PROVE  Atomic!ANext
    BY ONLY <1>10 DEF Atomic!ANext
  <1> QED BY <1>1, <1>2, <1>3, <1>4, <1>5, <1>6, <1>7, <1>8, <1>9,
          <1>10 DEF Step

\* Serial requests see the atomic service of docs/persistence.md.
THEOREM SerialIsAtomic == SerialSpec => ImplementsAtomicService
  <1>1. Init => Atomic!AInit
    <2> SUFFICES ASSUME Init PROVE Atomic!AInit
      OBVIOUS
    <2>1. \A r \in Requests : /\ Phase(r) = "idle"
                              /\ Answer(r) = [status |-> "none", row |-> Absent]
      BY DEF Init, Phase, Answer, InTransaction
    <2> QED BY <2>1 DEF Init, Atomic!AInit, Atomic!NoAnswer
  <1>2. [Atomic!ANext]_<<rows, MapPhase, call, MapAnswer>>
            => [Atomic!ANext]_Atomic!avars
    BY DEF Atomic!avars, MapPhase, MapAnswer
  <1> QED BY <1>1, <1>2, SerialInit, SerialStep, AtomicStep, PTL
          DEF SerialSpec, ImplementsAtomicService, Atomic!ASpec

-----------------------------------------------------------------------------
(***************************************************************************)
(* The three promises that overlapping requests break.                     *)
(***************************************************************************)

\* A serial rename or sync installs what it made of the committed row.
LEMMA SerialWrite ==
    ASSUME FullInv, NEW r \in Requests, Commit(r),
           call[r].op \in {"rename", "sync"}
    PROVE  /\ call[r] \in RenameCalls \cup SyncCalls
           /\ rows[call[r].nb] \in Row
           /\ notebook[r] = Assigned(call[r], rows[call[r].nb])
           /\ rows' = [rows EXCEPT
                         ![call[r].nb] = Assigned(call[r], rows[call[r].nb])]
  <1>1. call[r] \in Calls /\ rows \in [Notebooks -> Row \cup {Absent}]
    BY DEF FullInv, TypeInv, TypeOK, CallInv, Commit
  <1>2. call[r] \in RenameCalls \cup SyncCalls /\ call[r].nb \in Notebooks
    BY <1>1, CallKinds
  <1>3. /\ rows[call[r].nb] # Absent
        /\ View(r) = Assigned(call[r], rows[call[r].nb])
        /\ notebook[r] = View(r)
    BY DEF FullInv, SerialInv, UndisturbedInv, Commit, InTransaction
  <1>4. rows' = [rows EXCEPT ![call[r].nb] = View(r)]
    BY <1>1 DEF Commit, View
  <1> QED BY <1>1, <1>2, <1>3, <1>4

\* What is aligned has the id and the title it was aligned to.
LEMMA AssignedColumns ==
    ASSUME NEW c \in RenameCalls \cup SyncCalls, NEW row \in Row
    PROVE  LET new == Assigned(c, row) IN
           /\ new.title = new.snapshot.title
           /\ c.op = "rename" => new.snapshot.body = row.snapshot.body
           /\ c.op = "sync" => new.revision = row.revision + 1
  <1>1. CASE c \in RenameCalls
    <2>1. c.op = "rename" /\ c.nb \in Notebooks /\ c.title \in Titles
      BY <1>1 DEF RenameCalls
    <2>2. Assigned(c, row) =
              [row EXCEPT !.title = c.title,
                          !.snapshot = AlignSnapshot(row.snapshot, c.nb, c.title)]
      BY <2>1 DEF Assigned, Row
    <2>3. row.snapshot \in Snapshot
      BY DEF Row
    <2> QED BY <2>1, <2>2, <2>3, AlignedSnapshot DEF Row
  <1>2. CASE c \in SyncCalls
    <2>1. /\ c.op = "sync" /\ c.nb \in Notebooks
          /\ c.sent \in Snapshot /\ c.sent.title \in Titles
      BY <1>2 DEF SyncCalls, SentSnapshot, Snapshot
    <2>2. Assigned(c, row) =
              [row EXCEPT !.title = c.sent.title,
                          !.snapshot = AlignSnapshot(c.sent, c.nb, c.sent.title),
                          !.revision = row.revision + 1,
                          !.synced = TRUE]
      BY <2>1 DEF Assigned, Row
    <2> QED BY <2>1, <2>2, AlignedSnapshot DEF Row
  <1> QED BY <1>1, <1>2

\* Serial requests keep the two titles of a notebook the same.
THEOREM SerialTitlesMatch == SerialSpec => []TitleMatchesSnapshot
  <1>1. Init => TitleMatchesSnapshot
    BY DEF Init, TitleMatchesSnapshot
  <1>2. FullInv /\ TitleMatchesSnapshot /\ [SerialNext]_vars
            => TitleMatchesSnapshot'
    <2> SUFFICES ASSUME FullInv, TitleMatchesSnapshot, [SerialNext]_vars
                 PROVE  TitleMatchesSnapshot'
      OBVIOUS
    <2>1. TypeInv /\ Step
      BY NextSteps DEF SerialNext, FullInv
    <2>2. CASE rows' = rows
      BY <2>2 DEF TitleMatchesSnapshot
    <2>3. ASSUME NEW r \in Requests, Commit(r)
          PROVE  TitleMatchesSnapshot'
      <3> DEFINE c   == call[r]
                 new == Assigned(c, rows[c.nb])
      <3>1. /\ c \in Calls /\ c.op \in {"create", "rename", "delete", "sync"}
            /\ rows \in [Notebooks -> Row \cup {Absent}] /\ c.nb \in Notebooks
        BY <2>3, CallKinds
           DEF Commit, FullInv, TypeInv, TypeOK, CallInv, InTransaction
      <3>2. CASE c.op \in {"rename", "sync"}
        <4>1. /\ rows' = [rows EXCEPT ![c.nb] = new]
              /\ new.title = new.snapshot.title
          BY <2>3, <3>2, SerialWrite, AssignedColumns
        <4> HIDE DEF new
        <4> QED BY <3>1, <4>1 DEF TitleMatchesSnapshot
      <3>3. CASE c.op = "create"
        <4>1. /\ pending[r] = Assigned(c, Inserted(c)) /\ pending[r] # None
              /\ c \in CreateCalls
          BY <2>3, <3>1, <3>3, CallKinds
             DEF FullInv, SerialInv, UndisturbedInv, IInv, PendingInv, Commit,
                 InTransaction
        <4>2. c.sent \in Snapshot /\ c.title \in Titles
          BY <4>1 DEF CreateCalls, SentSnapshot, Snapshot
        <4>3. pending[r].title = c.title /\ pending[r].snapshot.title = c.title
          BY <3>1, <3>3, <4>1, <4>2, AlignedSnapshot DEF Assigned, Inserted
        <4>4. rows' = [rows EXCEPT ![c.nb] = pending[r]]
          BY <2>3, <4>1 DEF Commit
        <4> QED BY <3>1, <4>3, <4>4 DEF TitleMatchesSnapshot
      <3>4. CASE c.op = "delete"
        <4>1. pending[r] = Absent
          BY <2>3, <3>4 DEF FullInv, SerialInv, UndisturbedInv, Commit
        <4>2. rows' = [rows EXCEPT ![c.nb] = Absent]
          BY <2>3, <4>1, SentinelAssumption DEF Commit
        <4> QED BY <3>1, <4>2 DEF TitleMatchesSnapshot
      <3> QED BY <3>1, <3>2, <3>3, <3>4
    <2> QED BY <2>1, <2>2, <2>3, CommitSteps
  <1> QED BY <1>1, <1>2, SerialInit, SerialStep, PTL DEF SerialSpec

\* A serial sync commits on the revision that its client based it on.
THEOREM SerialSyncsHold == SerialSpec => SyncReplacesOnlyItsBase
  <1> DEFINE Replaces ==
        \A r \in Requests :
            (Commits(r) /\ call[r].op = "sync") =>
                /\ rows[call[r].nb] # Absent
                /\ rows[call[r].nb].revision = call[r].base
  <1>1. FullInv /\ [SerialNext]_vars => Replaces
    <2> SUFFICES ASSUME FullInv, [SerialNext]_vars, NEW r \in Requests,
                        Commits(r), call[r].op = "sync"
                 PROVE  /\ rows[call[r].nb] # Absent
                        /\ rows[call[r].nb].revision = call[r].base
      OBVIOUS
    <2>1. Commit(r)
      BY NextSteps, CommitSteps DEF SerialNext, FullInv
    <2>2. /\ call[r] \in RenameCalls \cup SyncCalls
          /\ rows[call[r].nb] \in Row
          /\ notebook[r].revision = rows[call[r].nb].revision + 1
      BY <2>1, SerialWrite, AssignedColumns
    <2>3. call[r].base \in Int /\ rows[call[r].nb].revision \in Int
      BY <2>2 DEF RenameCalls, SyncCalls, Row, Revisions
    <2>4. notebook[r].revision = call[r].base + 1
      BY <2>1 DEF FullInv, IInv, SyncInv, Commit
    <2> QED BY <2>2, <2>3, <2>4, SentinelAssumption
  <1> QED BY <1>1, SerialInit, SerialStep, PTL
          DEF SerialSpec, SyncReplacesOnlyItsBase

\* A serial rename keeps the contents that are there when it commits.
THEOREM SerialRenamesHold == SerialSpec => RenameKeepsBody
  <1> DEFINE Keeps ==
        \A r \in Requests :
            (Commits(r) /\ call[r].op = "rename" /\ rows[call[r].nb] # Absent) =>
                rows'[call[r].nb].snapshot.body = rows[call[r].nb].snapshot.body
  <1>1. FullInv /\ [SerialNext]_vars => Keeps
    <2> SUFFICES ASSUME FullInv, [SerialNext]_vars, NEW r \in Requests,
                        Commits(r), call[r].op = "rename"
                 PROVE  rows'[call[r].nb].snapshot.body
                            = rows[call[r].nb].snapshot.body
      OBVIOUS
    <2>1. Commit(r)
      BY NextSteps, CommitSteps DEF SerialNext, FullInv
    <2>2. /\ call[r] \in RenameCalls \cup SyncCalls
          /\ rows[call[r].nb] \in Row
          /\ rows' = [rows EXCEPT
                        ![call[r].nb] = Assigned(call[r], rows[call[r].nb])]
      BY <2>1, SerialWrite
    <2>3. Assigned(call[r], rows[call[r].nb]).snapshot.body
              = rows[call[r].nb].snapshot.body
      BY <2>2, AssignedColumns
    <2>4. call[r].nb \in Notebooks /\ rows \in [Notebooks -> Row \cup {Absent}]
      BY <2>2 DEF RenameCalls, SyncCalls, FullInv, TypeInv, TypeOK
    <2>5. rows'[call[r].nb] = Assigned(call[r], rows[call[r].nb])
      BY <2>2, <2>4
    <2> QED BY <2>3, <2>5
  <1> QED BY <1>1, SerialInit, SerialStep, PTL DEF SerialSpec, RenameKeepsBody

=============================================================================
