SPECIFICATION Spec
CONSTANTS
    Users = {alice, bob}
    Notebooks = {n1}
    Titles = {t1, t2}
    Bodies = {b1}
    Requests = {r1, r2}
    ClientId = ClientId
    MaxRevision = 3
    Absent = Absent
    None = None
INVARIANTS IInv SnapshotIdMatchesRow SyncedIffAdvanced SyncAnswersNextRevision DeletedIsGone
PROPERTIES OnlyTheOwnerWrites NoResurrection RenameKeepsRevision AnswerIsTheCommittedRow EveryRequestEnds
