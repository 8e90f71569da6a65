SPECIFICATION Spec
CONSTANTS
    Nonces = {n1, n2}
    Subjects = {s1, s2}
    Emails = {e1, e2}
    Requests = {r1, r2}
    None = None
INVARIANTS
    ConflictIsALink
