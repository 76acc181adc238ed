----------------------------- MODULE MCServices -----------------------------
(***************************************************************************)
(* The machines that stand beside the install transaction and the server's *)
(* life.  Each works on files and state of its own and calls none of the   *)
(* others, so that a run of all of them needs no interleaving: `which'     *)
(* says which one moves, and the others stay where they begin.             *)
(* MCServices.cfg gives the constants small values; ServiceFilesProofs and *)
(* ServiceTasksProofs prove about all values that satisfy the assumptions. *)
(***************************************************************************)
EXTENDS Naturals, FiniteSets

CONSTANTS
    NoThing, DamagedFile, NoModpack, NoProfile, NoProcess, NoToken, NoContent,
    Caller,             \* the calls of the machines that work for one call at a time
    MaxFaults, MaxTreeFaults, MaxWrites, MaxChanges,
    Profile, NoKey, NoValue, NoCaller, PropertyKey, PropertyValue, Patcher,
    Major, NeededMajor, MaxBoots, MaxDependency, MaxRuntime,
    Process, Port, Token,
    ServerType, GameVersion, LegacyVersion,
    PackMod, ClientMod, PackNeeds, PackLoader, MaxInstalls,
    JarName, JarContent, DeclaredJar, RemoteJar, JarNeeds, MaxScanTime,
    TModName, WorkshopItem, ItemMods, ItemPacks,
    Player, MaxPlayTime, MaxSessions,
    MaxRuns, POLL, TPS_FIRST, TPS, RECENT_PLAYERS_CAP,
    LicenceKey, KeyLife, BeatInterval, FLOOR, ACTIVE, RETRY, IDLE_CHECK, MaxBeatTime, MaxBeatChanges,
    Reader, WorldProfile, MaxSwitches,
    Writer, SavedValue, Overlap, SyncFails, PowerFails,
    MaxOutages, MaxChunks, BATCH, Release, U32

ASSUME OneCallAtATime == \E c \in Caller : Caller = {c}

\* What is absent and what is damaged are no values, of any kind.
ASSUME NothingIsNoValue ==
    /\ NoThing # DamagedFile
    /\ NoThing \notin WorkshopItem \cup LicenceKey
    /\ DamagedFile \notin LicenceKey
    /\ NoCaller \notin Patcher /\ NoKey \notin PropertyKey /\ NoValue \notin PropertyValue
    /\ \A list \in SUBSET WorkshopItem : list # NoThing /\ list # DamagedFile

ASSUME PropertiesAreSome ==
    PropertyKey # {} /\ IsFiniteSet(PropertyKey) /\ PropertyValue # {}

ASSUME WorkshopIsOfMods ==
    /\ ItemMods \in [WorkshopItem -> SUBSET TModName]
    /\ ItemPacks \subseteq [mods : SUBSET TModName, enabled : (SUBSET TModName) \cup {NoThing},
                            ids : (SUBSET WorkshopItem) \cup {NoThing}]

\* A key of the licence is active for a minute at least, so that its grace does not
\* pass between two looks at the clock.
ASSUME KeysLast == KeyLife \in [LicenceKey -> Nat] /\ \A key \in LicenceKey : KeyLife[key] >= 4

\* An interval is a number of seconds in a file of the user; it has a largest value.
ASSUME BeatSleeps ==
    /\ FLOOR \in Nat /\ ACTIVE \in Nat /\ RETRY \in Nat /\ IDLE_CHECK \in Nat
    /\ BeatInterval \subseteq Nat /\ \E n \in BeatInterval : \A i \in BeatInterval : i <= n

ASSUME MajorsAreNumbers == Major \subseteq Nat /\ NeededMajor \in Nat

ASSUME ProfilesAreFinite == IsFiniteSet(WorldProfile)

ASSUME BatchesAreSquares == MaxChunks \in Nat /\ BATCH \in Nat \ {0}

\* The first question for the speed waits longest.
ASSUME MonitorSleeps ==
    POLL \in Nat \ {0} /\ TPS_FIRST \in Nat /\ TPS \in 0..TPS_FIRST /\ MaxRuns \in Nat

VARIABLES
    which,
    javaBundled, javaStaging, javaTemp, javaPublished, javaPc, javaFaults,
    backupServer, backupZip, backupStaging, backupRollback, backupLeft, backupPc, backupFaults,
    profilesFile, profilesTmp, profilesCache, profilesCurrent, profilesDir, profilesCall,
    profilesFaults,
    propertiesFile, propertiesLock, propertiesCall, propertiesLast, propertiesWrites,
    propertiesFaults,
    remedyJava, remedyBoots, remedyDependencies, remedyRuntimes, remedyTried, remedyLog,
    remedyPc, remedyOutcome, remedyGiven,
    remoteSettings, remoteService, remoteProc, remotePort, remoteWaiter, remoteTunnel,
    remoteBinary, remoteCall, remoteMissed, remoteChanges,
    installCfg, installJar, installEntry, installMarker, installExtras, installCache,
    installStaged, installRollback, installInstalled, installBefore, installCall, installFaults,
    packProfile, packLoader, packLive, packAside, packSaved, packStaged, packKept, packPack,
    packMissing, packStep, packInstalls, packHad, packFaults,
    sideMods, sideCache, sideAside, sideScanned, sideClock, sideFaults,
    terrariaProgram, terrariaMods, terrariaEnabled, terrariaIds, terrariaSteam, terrariaItems,
    terrariaCall, terrariaFaults,
    playersStats, playersSessions, playersDied, playersClock, playersCall, playersFaults,
    nodeJar, nodeLoader, nodeEula, nodeProperties, nodePrepared, nodeRunning, nodeCall,
    nodeFaults,
    monitorStatus, monitorRun, monitorReader, monitorHeard, monitorOnline, monitorRecent,
    monitorShown, monitorTick, monitorPoller, monitorAsker, monitorSampling, monitorSince,
    monitorSoonest,
    beatInterval, beatGame, beatLocked, beatReachable, beatStored, beatNow, beatPc,
    beatSnapshot, beatPause, beatWait, beatShown, beatAge, beatCalm, beatChanges, beatFaults,
    dataProfile, dataUsers, dataDat, dataUsercache, dataPlayerCache, dataCall, dataWrites,
    dataSwitches,
    storedTarget, storedTmp, storedOlder, storedCall,
    chunksRunning, chunksCancelled, chunksTotal, chunksCompleted, chunksUp, chunksOutages, chunksSide,
    chunksAt, chunksStep, chunksForced, chunksGenerated, chunksLost, chunksEnded

javaVars == <<javaBundled, javaStaging, javaTemp, javaPublished, javaPc, javaFaults>>
backupVars == <<backupServer, backupZip, backupStaging, backupRollback, backupLeft, backupPc,
    backupFaults>>
profilesVars == <<profilesFile, profilesTmp, profilesCache, profilesCurrent, profilesDir,
    profilesCall, profilesFaults>>
propertiesVars == <<propertiesFile, propertiesLock, propertiesCall, propertiesLast,
    propertiesWrites, propertiesFaults>>
remedyVars == <<remedyJava, remedyBoots, remedyDependencies, remedyRuntimes, remedyTried,
    remedyLog, remedyPc, remedyOutcome, remedyGiven>>
remoteVars == <<remoteSettings, remoteService, remoteProc, remotePort, remoteWaiter,
    remoteTunnel, remoteBinary, remoteCall, remoteMissed, remoteChanges>>
installVars == <<installCfg, installJar, installEntry, installMarker, installExtras,
    installCache, installStaged, installRollback, installInstalled, installBefore, installCall,
    installFaults>>
packVars == <<packProfile, packLoader, packLive, packAside, packSaved, packStaged, packKept,
    packPack, packMissing, packStep, packInstalls, packHad, packFaults>>
sideVars == <<sideMods, sideCache, sideAside, sideScanned, sideClock, sideFaults>>
terrariaVars == <<terrariaProgram, terrariaMods, terrariaEnabled, terrariaIds, terrariaSteam,
    terrariaItems, terrariaCall, terrariaFaults>>
playersVars == <<playersStats, playersSessions, playersDied, playersClock, playersCall,
    playersFaults>>
nodeVars == <<nodeJar, nodeLoader, nodeEula, nodeProperties, nodePrepared, nodeRunning,
    nodeCall, nodeFaults>>
monitorVars == <<monitorStatus, monitorRun, monitorReader, monitorHeard, monitorOnline,
    monitorRecent, monitorShown, monitorTick, monitorPoller, monitorAsker, monitorSampling,
    monitorSince, monitorSoonest>>
beatVars == <<beatInterval, beatGame, beatLocked, beatReachable, beatStored, beatNow, beatPc,
    beatSnapshot, beatPause, beatWait, beatShown, beatAge, beatCalm, beatChanges, beatFaults>>
dataVars == <<dataProfile, dataUsers, dataDat, dataUsercache, dataPlayerCache, dataCall,
    dataWrites, dataSwitches>>
storedVars == <<storedTarget, storedTmp, storedOlder, storedCall>>
chunksVars == <<chunksRunning, chunksCancelled, chunksTotal, chunksCompleted, chunksUp, chunksOutages,
    chunksSide, chunksAt, chunksStep, chunksForced, chunksGenerated, chunksLost, chunksEnded>>
servicesVars == <<which, javaVars, backupVars, profilesVars, propertiesVars, remedyVars, remoteVars,
    installVars, packVars, sideVars, terrariaVars, playersVars, nodeVars, monitorVars,
    beatVars, dataVars, storedVars, chunksVars>>

\* Values of the constants that are functions or records: what the mods of a modpack
\* and the scanned JARs need, how long two keys of the licence are active, what is in two
\* Workshop items and two tModLoader modpacks.
SomePackNeeds ==
    [m \in {"map", "library", "shader"} |->
        CASE m = "map" -> {"library"} [] m = "library" -> {"shader"} [] OTHER -> {}]
SomeJarNeeds ==
    [j \in {"map", "shader", "shaderpack", "hud"} |-> IF j = "shaderpack" THEN {"shader"} ELSE {}]
SomeKeyLife == [k \in {"k", "l"} |-> IF k = "k" THEN 4 ELSE 5]
SomeItemMods == [i \in {"i", "j"} |-> IF i = "i" THEN {"a", "b"} ELSE {}]
SomeItemPacks ==
    {[mods |-> {"a"}, enabled |-> {"a"}, ids |-> {"i"}],
     [mods |-> {}, enabled |-> NoThing, ids |-> NoThing]}

Java == INSTANCE JavaRuntime WITH
    MaxFaults <- MaxTreeFaults, bundled <- javaBundled, staging <- javaStaging,
    temp <- javaTemp, published <- javaPublished, pc <- javaPc, faults <- javaFaults

Backup == INSTANCE DirectoryBackup WITH
    MaxFaults <- MaxTreeFaults, server <- backupServer, zip <- backupZip, staging <- backupStaging,
    rollback <- backupRollback, left <- backupLeft, pc <- backupPc, faults <- backupFaults

Saved == INSTANCE Profiles WITH
    file <- profilesFile, tmp <- profilesTmp, cache <- profilesCache,
    current <- profilesCurrent, dir <- profilesDir, call <- profilesCall,
    faults <- profilesFaults

Properties == INSTANCE ServerProperties WITH
    Key <- PropertyKey, Value <- PropertyValue, Caller <- Patcher,
    file <- propertiesFile, lock <- propertiesLock, call <- propertiesCall,
    last <- propertiesLast, writes <- propertiesWrites, faults <- propertiesFaults

Remedy == INSTANCE RuntimeRepair WITH
    Known <- NeededMajor,
    java <- remedyJava, boots <- remedyBoots, dependencies <- remedyDependencies,
    runtimes <- remedyRuntimes, tried <- remedyTried, log <- remedyLog, pc <- remedyPc,
    outcome <- remedyOutcome, given <- remedyGiven

Tunnel == INSTANCE RemoteAccess WITH
    settings <- remoteSettings,
    service <- remoteService, proc <- remoteProc, port <- remotePort, waiter <- remoteWaiter,
    tunnel <- remoteTunnel, binary <- remoteBinary, call <- remoteCall,
    missed <- remoteMissed, changes <- remoteChanges

Server == INSTANCE ServerInstall WITH
    Type <- ServerType, Version <- GameVersion, Legacy <- LegacyVersion,
    cfg <- installCfg, jar <- installJar, entry <- installEntry,
    marker <- installMarker, extras <- installExtras, cache <- installCache,
    staged <- installStaged, rollback <- installRollback, installed <- installInstalled,
    before <- installBefore, call <- installCall, faults <- installFaults

Modpack == INSTANCE ModpackInstall WITH
    Mod <- PackMod, ClientOnly <- ClientMod, Needs <- PackNeeds, Loader <- PackLoader,
    profile <- packProfile,
    loader <- packLoader, live <- packLive, aside <- packAside, saved <- packSaved,
    staged <- packStaged, kept <- packKept, pack <- packPack, missing <- packMissing,
    step <- packStep, installs <- packInstalls, had <- packHad, faults <- packFaults

Side == INSTANCE ModSide WITH
    Name <- JarName, Content <- JarContent, Declared <- DeclaredJar, Remote <- RemoteJar,
    Needs <- JarNeeds, NoJar <- NoContent, MaxTime <- MaxScanTime,
    mods <- sideMods, cache <- sideCache, aside <- sideAside,
    scanned <- sideScanned, clock <- sideClock, faults <- sideFaults

Terraria == INSTANCE TModMods WITH
    Name <- TModName, Item <- WorkshopItem, ModsOf <- ItemMods, Pack <- ItemPacks,
    None <- NoThing, Torn <- DamagedFile, NoPack <- NoModpack,
    program <- terrariaProgram, mods <- terrariaMods, enabled <- terrariaEnabled,
    ids <- terrariaIds, steam <- terrariaSteam, items <- terrariaItems, call <- terrariaCall,
    faults <- terrariaFaults

Players == INSTANCE PlayerStats WITH
    MaxTime <- MaxPlayTime,
    stats <- playersStats, sessions <- playersSessions, died <- playersDied,
    clock <- playersClock, call <- playersCall, faults <- playersFaults

Node == INSTANCE NodeInstance WITH
    Version <- GameVersion, jar <- nodeJar, loader <- nodeLoader, eula <- nodeEula,
    properties <- nodeProperties, prepared <- nodePrepared, running <- nodeRunning,
    call <- nodeCall, faults <- nodeFaults

Monitor == INSTANCE ServerMonitor WITH
    status <- monitorStatus, run <- monitorRun,
    reader <- monitorReader, heard <- monitorHeard, online <- monitorOnline,
    recent <- monitorRecent, shown <- monitorShown, tick <- monitorTick,
    poller <- monitorPoller, asker <- monitorAsker, sampling <- monitorSampling,
    since <- monitorSince, soonest <- monitorSoonest

Beat == INSTANCE Heartbeat WITH
    Key <- LicenceKey, Life <- KeyLife, Interval <- BeatInterval, MaxTime <- MaxBeatTime,
    MaxChanges <- MaxBeatChanges,
    NoKey <- NoThing, Torn <- DamagedFile, interval <- beatInterval, game <- beatGame,
    locked <- beatLocked, reachable <- beatReachable, stored <- beatStored, now <- beatNow,
    pc <- beatPc, snapshot <- beatSnapshot, pause <- beatPause, wait <- beatWait,
    shown <- beatShown, age <- beatAge, calm <- beatCalm, changes <- beatChanges,
    faults <- beatFaults

Data == INSTANCE PlayerData WITH
    Caller <- Reader, Profile <- WorldProfile, NoCache <- NoThing, profile <- dataProfile, users <- dataUsers, dat <- dataDat,
    usercache <- dataUsercache, playerCache <- dataPlayerCache, call <- dataCall,
    writes <- dataWrites, switches <- dataSwitches

Stored == INSTANCE AtomicPersistence WITH
    Value <- SavedValue, NoFile <- NoThing, NoValue <- DamagedFile, target <- storedTarget, tmp <- storedTmp,
    older <- storedOlder, call <- storedCall

\* A file that is absent or damaged is none that was written; the saves of one file
\* follow each other, and if the power fails then the disk has synced what it said.
ASSUME SavesAreAlone ==
    /\ NoThing \notin Stored!File /\ DamagedFile \notin SavedValue
    /\ Overlap = FALSE /\ ~(SyncFails = TRUE /\ PowerFails = TRUE)

Chunks == INSTANCE Pregeneration WITH
    running <- chunksRunning,
    cancelled <- chunksCancelled, total <- chunksTotal, completed <- chunksCompleted,
    up <- chunksUp, outages <- chunksOutages, side <- chunksSide, at <- chunksAt, step <- chunksStep,
    forced <- chunksForced, generated <- chunksGenerated, lost <- chunksLost, ended <- chunksEnded

-----------------------------------------------------------------------------
\* The machines that do not move stay in one initial state.
MCInit ==
    /\ which \in {"java", "backup", "profiles", "properties", "remedy", "remote",
                 "install", "pack", "side", "terraria", "players", "node", "monitor", "beat", "data", "stored", "chunks"}
    /\ Java!Init /\ (which = "java" \/ (~javaPublished))
    /\ Backup!Init
    /\ Saved!Init
    /\ Properties!Init /\ (which = "properties" \/ (propertiesFile = Properties!Missing))
    /\ Remedy!Init /\ (which = "remedy" \/ (remedyJava = 0))
    /\ Tunnel!Init /\ (which = "remote" \/ (remoteSettings.port = CHOOSE p \in Port : TRUE))
    /\ Server!Init /\ (which = "install" \/ (installCfg.type = (CHOOSE t \in ServerType : TRUE) /\ installCfg.version = CHOOSE v \in GameVersion : TRUE))
    /\ Modpack!Init /\ (which = "pack" \/ (packProfile = (CHOOSE l \in PackLoader : TRUE) /\ packLive = Modpack!None))
    /\ Side!Init
    /\ Terraria!Init
    /\ Players!Init
    /\ Node!Init
    /\ Monitor!Init
    /\ Beat!Init
    /\ Data!Init /\ (which = "data" \/ (dataProfile = CHOOSE s \in WorldProfile : TRUE))
    /\ Stored!Init /\ (which = "stored" \/ (storedTarget = NoThing /\ storedTmp = NoThing))
    /\ Chunks!Init

JavaMoves ==
    which = "java" /\ Java!Next
    /\ UNCHANGED <<which, backupVars, profilesVars, propertiesVars, remedyVars, remoteVars,
        installVars, packVars, sideVars, terrariaVars, playersVars, nodeVars, monitorVars,
        beatVars, dataVars, storedVars, chunksVars>>
BackupMoves ==
    which = "backup" /\ Backup!Next
    /\ UNCHANGED <<which, javaVars, profilesVars, propertiesVars, remedyVars, remoteVars,
        installVars, packVars, sideVars, terrariaVars, playersVars, nodeVars, monitorVars,
        beatVars, dataVars, storedVars, chunksVars>>
SavedMoves ==
    which = "profiles" /\ Saved!Next
    /\ UNCHANGED <<which, javaVars, backupVars, propertiesVars, remedyVars, remoteVars,
        installVars, packVars, sideVars, terrariaVars, playersVars, nodeVars, monitorVars,
        beatVars, dataVars, storedVars, chunksVars>>
PropertiesMoves ==
    which = "properties" /\ Properties!Next
    /\ UNCHANGED <<which, javaVars, backupVars, profilesVars, remedyVars, remoteVars,
        installVars, packVars, sideVars, terrariaVars, playersVars, nodeVars, monitorVars,
        beatVars, dataVars, storedVars, chunksVars>>
RemedyMoves ==
    which = "remedy" /\ Remedy!Next
    /\ UNCHANGED <<which, javaVars, backupVars, profilesVars, propertiesVars, remoteVars,
        installVars, packVars, sideVars, terrariaVars, playersVars, nodeVars, monitorVars,
        beatVars, dataVars, storedVars, chunksVars>>
TunnelMoves ==
    which = "remote" /\ Tunnel!Next
    /\ UNCHANGED <<which, javaVars, backupVars, profilesVars, propertiesVars, remedyVars,
        installVars, packVars, sideVars, terrariaVars, playersVars, nodeVars, monitorVars,
        beatVars, dataVars, storedVars, chunksVars>>
ServerMoves ==
    which = "install" /\ Server!Next
    /\ UNCHANGED <<which, javaVars, backupVars, profilesVars, propertiesVars, remedyVars,
        remoteVars, packVars, sideVars, terrariaVars, playersVars, nodeVars, monitorVars,
        beatVars, dataVars, storedVars, chunksVars>>
ModpackMoves ==
    which = "pack" /\ Modpack!Next
    /\ UNCHANGED <<which, javaVars, backupVars, profilesVars, propertiesVars, remedyVars,
        remoteVars, installVars, sideVars, terrariaVars, playersVars, nodeVars, monitorVars,
        beatVars, dataVars, storedVars, chunksVars>>
SideMoves ==
    which = "side" /\ Side!Next
    /\ UNCHANGED <<which, javaVars, backupVars, profilesVars, propertiesVars, remedyVars,
        remoteVars, installVars, packVars, terrariaVars, playersVars, nodeVars, monitorVars,
        beatVars, dataVars, storedVars, chunksVars>>
TerrariaMoves ==
    which = "terraria" /\ Terraria!Next
    /\ UNCHANGED <<which, javaVars, backupVars, profilesVars, propertiesVars, remedyVars,
        remoteVars, installVars, packVars, sideVars, playersVars, nodeVars, monitorVars,
        beatVars, dataVars, storedVars, chunksVars>>
PlayersMoves ==
    which = "players" /\ Players!Next
    /\ UNCHANGED <<which, javaVars, backupVars, profilesVars, propertiesVars, remedyVars,
        remoteVars, installVars, packVars, sideVars, terrariaVars, nodeVars, monitorVars,
        beatVars, dataVars, storedVars, chunksVars>>
NodeMoves ==
    which = "node" /\ Node!Next
    /\ UNCHANGED <<which, javaVars, backupVars, profilesVars, propertiesVars, remedyVars,
        remoteVars, installVars, packVars, sideVars, terrariaVars, playersVars, monitorVars,
        beatVars, dataVars, storedVars, chunksVars>>
MonitorMoves ==
    which = "monitor" /\ Monitor!Next
    /\ UNCHANGED <<which, javaVars, backupVars, profilesVars, propertiesVars, remedyVars,
        remoteVars, installVars, packVars, sideVars, terrariaVars, playersVars, nodeVars,
        beatVars, dataVars, storedVars, chunksVars>>
BeatMoves ==
    which = "beat" /\ Beat!Next
    /\ UNCHANGED <<which, javaVars, backupVars, profilesVars, propertiesVars, remedyVars,
        remoteVars, installVars, packVars, sideVars, terrariaVars, playersVars, nodeVars,
        monitorVars, dataVars, storedVars, chunksVars>>
DataMoves ==
    which = "data" /\ Data!Next
    /\ UNCHANGED <<which, javaVars, backupVars, profilesVars, propertiesVars, remedyVars,
        remoteVars, installVars, packVars, sideVars, terrariaVars, playersVars, nodeVars,
        monitorVars, beatVars, storedVars, chunksVars>>
StoredMoves ==
    which = "stored" /\ Stored!Next
    /\ UNCHANGED <<which, javaVars, backupVars, profilesVars, propertiesVars, remedyVars,
        remoteVars, installVars, packVars, sideVars, terrariaVars, playersVars, nodeVars,
        monitorVars, beatVars, dataVars, chunksVars>>
ChunksMoves ==
    which = "chunks" /\ Chunks!Next
    /\ UNCHANGED <<which, javaVars, backupVars, profilesVars, propertiesVars, remedyVars,
        remoteVars, installVars, packVars, sideVars, terrariaVars, playersVars, nodeVars,
        monitorVars, beatVars, dataVars, storedVars>>

MCNext ==
    \/ JavaMoves \/ BackupMoves \/ SavedMoves \/ PropertiesMoves \/ RemedyMoves
    \/ TunnelMoves \/ ServerMoves \/ ModpackMoves \/ SideMoves
    \/ TerrariaMoves \/ PlayersMoves \/ NodeMoves \/ MonitorMoves
    \/ BeatMoves \/ DataMoves \/ StoredMoves \/ ChunksMoves

MCSpec == MCInit /\ [][MCNext]_servicesVars

-----------------------------------------------------------------------------
\* Neither a restore of a backup, nor a download of Java, nor a change of
\* profiles is left half done, whatever fails and wherever it crashes; nor is
\* a node's instance prepared with half of a server, or any marker half saved.  No
\* mod that a modpack install replaces is lost, and a whole scan leaves no JAR
\* that is known to be client-only.
NothingIsHalfOrLost ==
    /\ Backup!ServerIsOneTree
    /\ Java!BundledIsWhole
    /\ Saved!ProfilesAreWhole
    /\ Node!PreparedIsWhole
    /\ Stored!TargetIsWhole
    /\ Modpack!OldModsAreKept
    /\ Side!ScanIsComplete

\* Profiles and server properties that were saved stay; a list of mods that cannot
\* be read is not replaced by a change of one of them, nor a node's properties by
\* its preparation; a licence lapses through its grace only; and a saved marker is
\* a register.
SavesStay ==
    /\ Saved!ProfilesStay
    /\ Properties!CreatedStays
    /\ Terraria!ListIsKept
    /\ Node!StoppedIsEnded
    /\ Beat!LicenceLapsesLate
    /\ Stored!ImplementsRegister

\* What an edit does not name stays: the keys of server.properties that another
\* call wrote, and the arguments a node starts with.
EditsAreExact ==
    /\ Properties!PatchesStay
    /\ Node!ArgsAreKept

\* No validation configures the same Java twice, no port has two tunnels, the play
\* time of a player counts each session once, and a pregeneration that completes
\* has covered its square, no cell twice.  One task samples a server that waited
\* three seconds for its restart, one asks it for its speed, and the players shown
\* are those counted; and the dashboard knows the server's status, the dialog of a
\* player the newest files of the profile.
NothingIsTwiceOrMissed ==
    /\ Remedy!NoRepairTwice
    /\ Tunnel!OneTunnel
    /\ Players!PlaytimeIsOfSessions
    /\ Chunks!SquareIsCovered
    /\ Monitor!OneSampler
    /\ Monitor!OneAsker
    /\ Monitor!ShownIsCounted
    /\ Beat!DashboardIsCurrent
    /\ Data!LoneAnswerIsCurrent
    /\ Data!CachesAreNotOlder

\* A failed commit of a loader puts the old runtime back, and a profile that is
\* set up can be started, with extras that its type can load; a Workshop item
\* that is recorded was copied.
InstallsAreSound ==
    /\ Server!RuntimeIsRestored
    /\ Server!SavedStarts
    /\ Server!ExtrasFit
    /\ Terraria!RecordedIsCopied
=============================================================================
