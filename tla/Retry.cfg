SPECIFICATION RetrySpec
CONSTANTS
    None = None
    Event = {1}
    Session = {s1}
    Asset = {1}
    Request = {r1}
    Proc = {p1}
    Cleaner = cleaner
    Stripe = {"s0"}
    StripeOf <- OneStripe
    Bodies <- OneBody
    Claims = {}
    LimitSet <- OneUnlimited
    ServerLimit = 2
    SessionMaxAssets = 5
    SessionMaxBytes = 9
    PrefixLen = 2
    Page = 2
    MaxPub = 1
    Backends = {"s3"}
    Legacy = {1}
    Ops = {"complete", "delete", "cleanup", "restart"}
PROPERTIES DeletionFinishes
