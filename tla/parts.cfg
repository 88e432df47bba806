CONSTANTS
    f1 = f1
    f2 = f2
    a1 = a1
    a2 = a2
    m1 = m1
    m2 = m2
    MaxText = 4
    Processes = {a, b}
    CacheSizes <- MCCacheSizes
    ItemSizes <- MCItemSizes
    HeaderSize = 104
    EntrySize = 40
    WordAlign = 8
    UintSize = 268435456
    Bases = {0, 4096}
    Objects = {f1, f2}
    Process <- MCProcess
    Names = {a1, a2}
    Nobody = Nobody
    NoName = NoName
    MaxCrashes = 1
    LocksAge = TRUE
    ReusesFailed = FALSE
    Fields = {"componentName", "displayName", "desktopFileName"}
    StaticFields = {"componentName"}
    FieldValues = {"", "n"}
    MaxLicenses = 2
    AppStreamFiles <- MCAppStreamFiles
    Variables = {"A", "B"}
    Values = {"1", "2"}
    ExitCodes = {0, 1}
    Meta = Meta
    Executables = {"a"}
    KnownShells <- MCShells
    Mimes = {m1, m2}
    UrlLists <- MCUrlLists
    Readers = {me, you}
    Source = me
    BatchSize = 2
    MaxTransfers = 2
    PluginFiles <- MCPluginFiles
    PluginId <- MCPluginId
    Contents = {"empty", "m"}
    MaxNow = 2
    MaxCache = 2
    RecursionLimit = 10
SYMMETRY MCSymmetry
SPECIFICATION Spec
CHECK_DEADLOCK FALSE
INVARIANTS ProcessSound PortalSound
    EditedByOne CrashKeepsWork NothingLeftBehind
PROPERTIES CachesSound QuotingSound TextsSound AboutDataSound SystemSound PluginsSound
