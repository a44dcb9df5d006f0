SPECIFICATION Spec
CONSTANTS
    None = None
    Event = {1}
    Session = {s1}
    Asset = {1, 2}
    Request = {}
    Proc = {p1, p2}
    Cleaner = cleaner
    Stripe = {"s0"}
    StripeOf <- OneStripe
    Bodies <- LocalBodies
    Claims <- UnknownLength
    LimitSet <- OneUnlimited
    ServerLimit = 2
    SessionMaxAssets = 5
    SessionMaxBytes = 9
    PrefixLen = 2
    Page = 3
    MaxPub = 1
    Backends = {"local"}
    Legacy = {}
    Ops = {"session", "upload", "snapshot", "delete", "cleanup", "expire", "restart"}
SYMMETRY ProcSymmetry
INVARIANTS TypeOK NothingOrphaned ReadyIsBacked SnapshotPinned
PROPERTIES ReadyIsKept DeletionDrains
