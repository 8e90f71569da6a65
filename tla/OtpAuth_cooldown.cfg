SPECIFICATION Spec
CONSTANTS
    Emails = {e1}
    Challenges = {c1, c2}
    Requests = {r1, r2}
    MaxAttempts = 2
    Ttl = 2
    Cooldown = 1
    MaxTime = 3
    Absent = Absent
    None = None
INVARIANTS
    ActiveChallengesAreSpaced
