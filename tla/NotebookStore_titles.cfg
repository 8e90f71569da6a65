SPECIFICATION Spec
CONSTANTS
    Users = {alice}
    Notebooks = {n1}
    Titles = {t1, t2}
    Bodies = {b1, b2}
    Requests = {r1, r2}
    ClientId = ClientId
    MaxRevision = 3
    Absent = Absent
    None = None
INVARIANTS TitleMatchesSnapshot
