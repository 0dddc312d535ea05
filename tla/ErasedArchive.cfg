SPECIFICATION Spec
CONSTANTS
    u1 = u1  u2 = u2  e1 = e1  e2 = e2
    Users = {u1}
    Admins = {}
    Exports = {e1}
    Owner <- OneOwner
    Nobody = Nobody
    MaxFaults = 0
    Faults = {}
INVARIANTS ErasedLeavesNoArchive
CHECK_DEADLOCK FALSE
