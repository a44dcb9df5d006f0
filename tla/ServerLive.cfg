\* The parts of the server that must come to an end: liveness.
SPECIFICATION ServerSpec

CONSTANTS
    Parts = {"password", "oidc", "shutdown", "maintenance"}

    Key = {"global"}
    GlobalKey = "global"
    Rate <- TwoForAll
    Capacity = 1
    Minute = 1
    Idle = 1
    Caller = {}

    Address = {}
    Unusable = Unusable
    Trusted = {}
    MaxParts = 0
    MaxMadeUp = 0
    MaxProxies = 0

    Nil = Nil
    Server = {"old"}
    Browser = {b1, b2}
    Request = {r1, r2}
    Password = {"one"}
    Modes <- Rotation
    LoginSlots = 1
    OIDCSlots = 1
    TxCap = 1
    MaxToken = 2
    MaxFlow = 2
    MaxStarts = 2

    Guest = {}
    WidgetToken = {t1}
    ForeignToken = {}
    ChallengeSlots = 1

    Nobody = Nobody
    Process = {}
    Release = {}
    Configuration = {}
    OldHistory <- Histories
    Stored = {}
    LegacyAt <- NoLegacy
    LocalKey = "local"

    Handler = {h1, h2, h3}

    DueRow = {1, 2, 3, 4, 5}
    Broken = {1, 2, 4}
    PageSize = 2
    MaxLaunches = 2

    Snapshots = {}
    Blank = {}
    Separator = {}
    Unsafe = {}
    Dotted = {}
    Device = {}
    Lower <- LowerCase
    Numbered <- Suffixes
    MaxTokens = 1
    MaxRuns = 0

INVARIANTS
    ClosedAfterUse

PROPERTIES
    SlotsComeBack ShutdownEnds CleanupReaches

CHECK_DEADLOCK FALSE
