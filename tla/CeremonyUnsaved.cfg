SPECIFICATION Spec
CONSTANTS
    a = a  b = b  r1 = r1  r2 = r2
    Ops = {a}
    Worlds <- OneProfile
    Rules = {r1, r2}
    Bodies <- OneBody
    MaxRounds = 1
    Profile <- StoredBody
INVARIANTS
    ProfileStored
CHECK_DEADLOCK FALSE
