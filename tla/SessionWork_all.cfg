SPECIFICATION FairTableSpec
CONSTANTS
    Sessions = {s1}
    Owners = {o1, o2}
    Leases = {h1, h2}
    NoOwner = NoOwner
    NoSession = NoSession
    TTL = 1
    MaxFence = 2
    MaxFaults = 1
INVARIANTS
    HoldersOwnTheirRows
    OneHolder
PROPERTIES
    LeasesMoveOn
    ImplementsGrants
    WakeIsHandedOn
