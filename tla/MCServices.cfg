SPECIFICATION MCSpec
CONSTANTS
    NoThing = NoThing
    DamagedFile = DamagedFile
    NoModpack = NoModpack
    NoProfile = "none"
    NoProcess = "none"
    NoToken = "none"
    NoContent = "none"
    Caller = {"call"}
    MaxFaults = 1
    MaxTreeFaults = 3
    MaxWrites = 1
    MaxChanges = 1
    Profile = {"a", "b", "c"}
    NoKey = "#"
    NoValue = "none"
    NoCaller = "nobody"
    PropertyKey = {"motd", "pvp"}
    PropertyValue = {"v"}
    Patcher = {"one", "two"}
    Major = {1, 2, 3}
    NeededMajor = 2
    MaxBoots = 6
    MaxDependency = 2
    MaxRuntime = 2
    Process = {"p", "q"}
    Port = {1, 2}
    Token = {"t"}
    ServerType = {"Fabric", "Spigot", "Forge", "SpongeForge", "Terraria"}
    GameVersion = {1, 2}
    LegacyVersion = {1}
    PackMod = {"map", "library", "shader"}
    ClientMod = {"shader"}
    PackNeeds <- SomePackNeeds
    PackLoader = {"vanilla", "forge"}
    MaxInstalls = 2
    JarName = {"a.jar", "b.jar"}
    JarContent = {"map", "shader", "shaderpack", "hud"}
    DeclaredJar = {"shader"}
    RemoteJar = {"hud"}
    JarNeeds <- SomeJarNeeds
    MaxScanTime = 4
    TModName = {"a", "b"}
    WorkshopItem = {"i", "j"}
    ItemMods <- SomeItemMods
    ItemPacks <- SomeItemPacks
    Player = {"p"}
    MaxPlayTime = 3
    MaxSessions = 2
    MaxRuns = 2
    POLL = 1
    TPS_FIRST = 2
    TPS = 2
    RECENT_PLAYERS_CAP = 1
    LicenceKey = {"k", "l"}
    KeyLife <- SomeKeyLife
    BeatInterval = {0, 4}
    FLOOR = 2
    ACTIVE = 2
    RETRY = 3
    IDLE_CHECK = 3
    MaxBeatTime = 6
    MaxBeatChanges = 2
    Reader = {"call"}
    WorldProfile = {"s", "t"}
    MaxSwitches = 1
    Writer = {"w"}
    SavedValue = {"v", "x"}
    Overlap = FALSE
    SyncFails = FALSE
    PowerFails = TRUE
    MaxOutages = 2
    MaxChunks = 30
    BATCH = 2
    Release = 8
    U32 = 49
INVARIANTS
    NothingIsHalfOrLost
    NothingIsTwiceOrMissed
    EditsAreExact
PROPERTIES
    SavesStay
    InstallsAreSound
CHECK_DEADLOCK FALSE
