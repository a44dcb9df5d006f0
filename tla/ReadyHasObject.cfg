SPECIFICATION Spec
CONSTANTS
    None = None
    Event = {1}
    Session = {s1}
    Asset = {1}
    Request = {r1}
    Proc = {p1, p2}
    Cleaner = cleaner
    Stripe = {"s0"}
    StripeOf <- OneStripe
    Bodies <- DirectBodies
    Claims = {}
    LimitSet <- OneUnlimited
    ServerLimit = 2
    SessionMaxAssets = 5
    SessionMaxBytes = 9
    PrefixLen = 2
    Page = 1
    MaxPub = 1
    Backends = {"s3"}
    Legacy = {}
    Ops = {"session", "prepare", "authorize", "complete", "delete", "cleanup", "expire", "restart"}
SYMMETRY ProcSymmetry
INVARIANTS ReadyHasObject
