SPECIFICATION FairSpec
CONSTANTS
    u1 = u1  u2 = u2  e1 = e1  e2 = e2
    Users = {u1}
    Admins = {u1}
    Exports = {e1, e2}
    Owner <- OneOwner
    Nobody = Nobody
    MaxFaults = 2
    Faults <- Survivable
INVARIANTS OneActiveExport ArchiveReachable
PROPERTIES ExportsSettle ArchivesRetired
CHECK_DEADLOCK FALSE
