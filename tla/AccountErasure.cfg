SPECIFICATION Spec
CONSTANTS
    u1 = u1  u2 = u2  e1 = e1  e2 = e2
    Users = {u1, u2}
    Admins = {u1, u2}
    Exports = {e1}
    Owner <- OneOwner
    Nobody = Nobody
    MaxFaults = 2
    Faults <- Survivable
INVARIANTS TypeOK AdminRemains ReadyHasArchive
CHECK_DEADLOCK FALSE
