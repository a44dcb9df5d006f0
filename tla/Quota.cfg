SPECIFICATION Spec
CONSTANTS
    None = None
    Event = {1}
    Session = {s1}
    Asset = {1, 2}
    Request = {r1, r2}
    Proc = {p1, p2}
    Cleaner = cleaner
    Stripe = {"s0"}
    StripeOf <- OneStripe
    Bodies <- QuotaBodies
    Claims <- QuotaClaims
    LimitSet <- QuotaLimits
    ServerLimit = 2
    SessionMaxAssets = 2
    SessionMaxBytes = 3
    PrefixLen = 2
    Page = 1
    MaxPub = 1
    Backends = {"local", "s3"}
    Legacy = {1}
    Ops = {"prepare", "complete", "upload", "update"}
SYMMETRY ClientSymmetry
PROPERTIES NoOvercommit
