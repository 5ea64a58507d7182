SPECIFICATION HostSpec
CONSTANTS
    Texts <- MCTexts
    None = "none"
    Shown <- MCShown
    Clash <- MCClash
    Volatile <- MCVolatile
    Stderr = TRUE
    Fds = {3, 4, 5}
    NoHolder = "nobody"
    EffectiveSets <- MCEffectiveSets
    WordBits = 32
    NetAdmin = 12
    CapsRequired <- MCRequired
    MaxChanges = 2
    Devs = {"d1", "d2"}
    Threads = {"t1", "t2"}
    Names = {"tun0", "tun1"}
    Requests = {"plain", "template"}
    Candidates <- MCCandidates
    MTUs = {1, 2}
    DefaultMTU = 2
    Overhead = 0
    Probes = {p1, p2}
    Paths = {f1, f2, f3, f4, f5}
    NoPath = "no path"
    MaxStrays = 1
INVARIANTS
    TypeOK
    CacheTrue
    Idempotent
    DeviceTypes
    DescriptorsOwned
    PreflightPredictsOpen
    ReportsAgree
    CutOnlyIfMoved
    CloseIsIdempotent
    NothingLeftBehind
    ProbesDoNotRace
PROPERTIES
    RemembersWhatIsThere
    CloseFrees
