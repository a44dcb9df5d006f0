\* The parts of the server around the media service: safety.
SPECIFICATION ServerSafety

CONSTANTS
    Parts = {"limiter", "address", "password", "oidc", "challenge", "registry", "export"}

    Key = {"global", "k1", "k2"}
    GlobalKey = "global"
    Rate <- TwoForAll
    Capacity = 2
    Minute = 2
    Idle = 3
    Caller = {c1, c2}

    Address = {a1, a2, p1, p2}
    Unusable = Unusable
    Trusted = {p1, p2}
    MaxParts = 3
    MaxMadeUp = 2
    MaxProxies = 2

    Nil = Nil
    Server = {"old", "new"}
    Browser = {b1, b2}
    Request = {r1, r2}
    Password = {"one", "two"}
    Modes <- Rotation
    LoginSlots = 1
    OIDCSlots = 2
    TxCap = 1
    MaxToken = 2
    MaxFlow = 2
    MaxStarts = 3

    Guest = {g1, g2, g3}
    WidgetToken = {t1, t2}
    ForeignToken = {f1}
    ChallengeSlots = 2

    Nobody = Nobody
    Process = {p, q}
    Release <- Binaries
    Configuration <- Environments
    OldHistory <- Histories
    Stored = {"photo1", "photo2"}
    LegacyAt <- OneLegacy
    LocalKey = "local"

    Handler = {}

    DueRow = {}
    Broken = {}
    PageSize = 1
    MaxLaunches = 0

    Snapshots <- OddSnapshots
    Blank = {" "}
    Separator = {"/"}
    Unsafe = {"?"}
    Dotted = {".jpg", ".part"}
    Device = {"con"}
    Lower <- LowerCase
    Numbered <- Suffixes
    MaxTokens = 3
    MaxRuns = 2

SYMMETRY AccessSymmetry

INVARIANTS
    RoomForNewKeys ChargedToNearestUntrusted
    PasswordSessionsCurrent OneSessionPerFlow OneGrantPerToken
    NothingRepointed SchemaNeverForks
    ManifestMeansComplete PortableNames FailsOnlyInTrouble

PROPERTIES
    ForgettingIsInvisible RefusedOnlyWhenFull

CHECK_DEADLOCK FALSE
