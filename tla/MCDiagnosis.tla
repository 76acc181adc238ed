---------------------------- MODULE MCDiagnosis ----------------------------
(***************************************************************************)
(* A small instance of BootRepair, and next to it the algorithms that tell *)
(* what failed: each is applied to every input of a small set, one after   *)
(* the other.  `sample` is the input under test.                           *)
(***************************************************************************)
EXTENDS BootRepair, Sequences, TLC

Metadata == INSTANCE ModMetadata
Crash == INSTANCE CrashAttribution
Plugins == INSTANCE PluginCatalog
Packs == INSTANCE PackDiscovery
Content == 1..3
Aside == INSTANCE QuarantineListing WITH
    IdsIn <- [c \in Content |-> IF c = 2 THEN {"b"} ELSE {"a"}],
    ClientOnly <- {3}, Protected <- {"minecraft"}, Server <- "server"

VARIABLE sample
Sequences(S, n) == UNION {[1..k -> S] : k \in 0..n}
Nothing == [about |-> "nothing"]

-----------------------------------------------------------------------------
\* JARs: one for two loaders, one with two mods, clients, what is needed of
\* them, and one that contradicts itself.
File(loader, ids, side, deps) == [loader |-> loader, ids |-> ids, side |-> side, deps |-> deps]
Depends(id) == [id |-> id, section |-> "depends", version |-> "any", mandatory |-> "absent", type |-> "none"]
Jars ==
    {<<File("Fabric", <<"a">>, "none", {Depends("b"), Depends("minecraft")})>>,
     <<File("Fabric", <<"b">>, "none", {}), File("Forge", <<"b">>, "none", {})>>,
     <<File("Forge", <<"c", "b">>, "Client", {Depends("a")})>>,
     <<File("Forge", <<"a", "c">>, "Universal", {Depends("d")})>>,
     <<File("Quilt", <<"d">>, "Client", {}), File("Forge", <<"d">>, "Universal", {})>>,
     <<File("Forge", <<"b">>, "Client", {})>>}

\* Logs, and three states of the staged mods: two mods, two in one JAR, and
\* two JARs with one.
Line(kind, of) == [kind |-> kind, of |-> of]
Lines ==
    {Line("Mod ID", "a"), Line("failed mod", "b"), Line("entrypoint", "a"), Line("startup", "b"),
     Line("ModLoading", "none"), Line("Failure message", "none"), Line("Mod File", "a.jar"),
     Line("jar", "b.jar"), Line("jar", "java.base"), Line("provided by", "b"),
     Line("mixin config", "mixins"), Line("frame", <<"com", "a", "a", "init">>)}
Jar(ids, resources, compat) == [ids |-> ids, resources |-> resources, compat |-> compat]
Indices ==
    {[j \in {"a.jar", "b.jar"} |->
        IF j = "a.jar" THEN Jar(<<"a">>, {"mixins"}, "Both") ELSE Jar(<<"b">>, {"mixins"}, "ClientOnly")],
     [j \in {"a.jar", "b.jar"} |->
        IF j = "a.jar" THEN Jar(<<"a", "c">>, {"mixins"}, "Both") ELSE Jar(<<>>, {}, "Both")],
     [j \in {"a.jar", "b.jar"} |-> Jar(<<"a">>, {}, "Both")]}

Versions == {<<1>>, <<1, 0>>, <<1, 1>>, <<2>>}
Texts ==
    {[lo |-> v, hi |-> v, mark |-> m] : v \in Versions \ {<<1, 0>>}, m \in {"", ">=", ">", "<=", "<", "+", "="}}
    \cup {[lo |-> <<1, 0>>, hi |-> <<2>>, mark |-> m] :
            m \in {"[]", "[)", "(]", "()"}}
    \cup {[lo |-> <<>>, hi |-> <<>>, mark |-> "?"]}
LoaderLines ==
    [family : {"Forge", "Fabric"}, text : {t \in Texts : t.lo # <<>>},
     asks : {"requires", "is required"}, after : {"nothing", "words", "dot"}]
Needed ==
    UNION {Metadata!LogRequirements(line) : line \in {l \in LoaderLines : l.family = "Forge"}}
    \cup Metadata!JarRequirements({[loader |-> "Forge", version |-> t, mandatory |-> TRUE] : t \in Texts})

\* Plugins: what the files of a JAR say of themselves and of another plugin, and
\* the versions that a provider lists.
About(id, name, said) ==
    [id |-> id, name |-> name, main |-> "none", foliaSupported |-> "absent", folia |-> "absent",
     deps |-> {[name |-> "vault", said |-> k] : k \in said}]
Saying(said) == {About("none", n, k) : n \in {"none", "shop"}, k \in said}
PluginTexts ==
    [f \in {"plugin.yml", "paper-plugin.yml", "velocity-plugin.json", "bungee.yml"} |->
        CASE f = "plugin.yml" -> Saying({{}, {"depend"}, {"softdepend"}, {"loadbefore"}, {"depend", "softdepend"}})
          [] f = "paper-plugin.yml" ->
                Saying({{}} \cup {{k} : k \in {"absent", "REQUIRED", "OPTIONAL", "AFTER", "BEFORE", "later"}})
                \cup {About("none", "other", {"REQUIRED"})}
          [] f = "velocity-plugin.json" ->
                {About(id, "none", k) : id \in {"none", "shop"}, k \in {{}, {"absent"}, {"true"}, {"false", "true"}}}
          [] OTHER -> Saying({{}, {"depend"}, {"softDepends"}, {"softdepend"}, {"loadBefore", "depend"}})]
PluginJars ==
    UNION {{jar \in [F -> UNION {PluginTexts[f] : f \in F}] : \A f \in F : jar[f] \in PluginTexts[f]} :
        F \in {G \in SUBSET DOMAIN PluginTexts : Cardinality(G) <= 3}}
Version(id, channel, date) ==
    [id |-> id, channel |-> channel, date |-> date, files |-> {"jar"}, pinned |-> id = "v3"]
Listed ==
    {Version("v1", "release", 1), Version("v2", "release", 2), Version("v3", "release", 3),
     Version("v4", "beta", 4)}

\* Modpacks: files of CurseForge, some of them server packs of others, and
\* versions of Modrinth, one without a file.
Token(name) == [name |-> name, digit |-> name \in {"1.20", "1.21"}]
Tokens == {{Token("1.20"), Token("forge"), Token("client")}, {Token("1.21"), Token("fabric"), Token("forge")}}
CurseFiles ==
    {[i \in DOMAIN files |-> files[i] @@ [id |-> i, name |-> 10 + i]] :
        files \in Sequences({[releaseType |-> r, date |-> d, tokens |-> t, isServerPack |-> p # 0, parent |-> p] :
                             r \in {1, 2}, d \in {1, 2}, t \in Tokens, p \in {0, 1, 2}}, 3)}
ModrinthVersions ==
    {[i \in DOMAIN versions |-> versions[i] @@ [id |-> i, loaders |-> {"forge"}]] :
        versions \in Sequences({[type |-> t, date |-> d, games |-> g, files |-> f] :
                                t \in {"release", "beta"}, d \in {1, 2}, g \in {{"1.20"}, {"1.20", "1.21"}},
                                f \in {<<>>, <<[name |-> 11, primary |-> FALSE, mrpack |-> TRUE]>>}}, 3)}

\* Lines of a boot's log: of up to four words, after the words that announce a
\* mandatory dependency or without them.
Word ==
    {Bare(w) : w \in {"mod", "requires", "version", "quilt", "y", "(", ")"}}
    \cup {Quoted("x"), Doubly("z")}
Announced == <<Bare("missing"), Bare("mandatory"), Bare("dependency")>>
LogLines == Sequences(Word, 4) \cup {Announced \o l : l \in Sequences(Word, 2)}

\* Quarantine directories with up to two records of two files, the live mods that
\* a restore finds, and the transactions of two servers.
Recorded ==
    LET record(f, c, p) ==
            [file |-> f, sha |-> c, path |-> p, ids |-> {"a"}, server |-> "server", status |-> "Quarantined"]
        first == record(<<"a">>, 1, <<Aside!Mods, <<"a">>>>)
        places == {<<Aside!Mods, <<"b">>>>, <<Aside!Mods, <<"two..dots">>>>, <<<<"config">>, <<"a">>>>}
    IN {record(<<f>>, c, <<Aside!Mods, <<f>>>>) : f \in {"a", "b"}, c \in {1, 2}}
       \cup {record(<<"a">>, 1, p) : p \in places}
       \cup {[first EXCEPT !.ids = i] : i \in {{}, {"b"}, {"minecraft"}}}
       \cup {[first EXCEPT !.status = t] : t \in {"Restored", "RestoreFailed"}}
       \cup {[first EXCEPT !.server = "other"]}
Files == UNION {[F -> Content] : F \in SUBSET {<<"a">>, <<"b">>}}
Directories ==
    {[link |-> FALSE, schema |-> "v1", records |-> r, mods |-> m, jarAtRoot |-> FALSE] :
        r \in Sequences(Recorded, 2), m \in Files}
    \cup {[link |-> l, schema |-> s, records |-> <<>>, mods |-> m, jarAtRoot |-> j] :
        l \in BOOLEAN, s \in {"absent", "torn", "future"}, m \in Files, j \in BOOLEAN}
LiveMods ==
    {[there |-> FALSE, mods |-> <<>>]}
    \cup {[there |-> TRUE, mods |-> m] : m \in {<<>>, [f \in {<<"a">>} |-> 2], [f \in {<<"c">>} |-> 1]}}
Transactions ==
    [marker : {"torn", "whole"}, phase : {"Building", "Committing", "PendingUserAction", "Committed"},
     recovery : {"torn", "whole"}, live : {"server", "other"}]

Samples ==
    {[about |-> "aside", dir |-> d] : d \in Directories} \cup
    {[about |-> "staging", staging |-> t] : t \in Sequences(Transactions, 2)} \cup
    {[about |-> "line", line |-> l] : l \in LogLines} \cup
    {[about |-> "requires", version |-> v, loader |-> o, noise |-> n] :
        v \in {"", "1"}, o \in Source, n \in {<<>>} \cup {<<l>> : l \in Sequences(Word, 3)}} \cup
    {[about |-> "pack", provider |-> "CurseForge", listed |-> files] : files \in CurseFiles}
    \cup {[about |-> "pack", provider |-> "Modrinth", listed |-> versions] : versions \in ModrinthVersions}
    \cup {[about |-> "plugin", jar |-> jar] : jar \in PluginJars}
    \cup {[about |-> "update", provider |-> p, versions |-> vs, current |-> c] :
            p \in {"Modrinth", "Hangar"}, vs \in Sequences(Listed, 4), c \in {"v1", "v3", "v5"}}
    \cup {[about |-> "graph", jars |-> jars] : jars \in Sequences(Jars, 3)}
    \cup {[about |-> "crash", log |-> lines, index |-> index] : lines \in Sequences(Lines, 3), index \in Indices}
    \cup {[about |-> "loader", needed |-> <<r, s>>, current |-> v, pin |-> <<1, 1>>] :
            r \in Needed, s \in Needed, v \in Versions}
    \cup {[about |-> "asks", line |-> l] : l \in LoaderLines}

MCInit == Init /\ sample = Nothing /\ (log # NoMod \/ mapped = [m \in ModId |-> [p \in Project |-> 0]])
Sample ==
    /\ sample = Nothing
    /\ pc = "start" /\ round = 0 /\ log = NoMod /\ ~graph /\ related = {}
    /\ declares = [p \in Project |-> {}]
    /\ sample' \in Samples
    /\ UNCHANGED vars
Repair == sample = Nothing /\ Next /\ UNCHANGED sample
MCSpec == MCInit /\ [][Repair \/ Sample]_<<vars, sample>>

-----------------------------------------------------------------------------
\* Build and CreatePlan: a JAR that describes itself to several loaders is one
\* provider of its mods, and a plan without obstacles leaves a server on which
\* each mod has one provider of everything that it requires, also without a JAR
\* that a recovery may take away.
PlansAreClosed ==
    sample.about = "graph" =>
        /\ Metadata!OneJarIsNotAmbiguous(sample.jars)
        /\ Metadata!CleanPlanIsClosed(sample.jars)
        /\ Metadata!NoImpactNoObstacle(sample.jars)

\* Determine and Availability: when the loader names two mods, none is blamed,
\* and a JAR that the user may have taken away brings no other mod.
TwoNamedModsAreAmbiguous ==
    sample.about = "crash" => Crash!TwoNamedModsAreAmbiguous(sample.log, sample.index)
QuarantineIsPrecise ==
    sample.about = "crash" => Crash!QuarantineIsPrecise(sample.log, sample.index)

\* AnalyzeBootFailure: what a boot misses is what the loader says, by its own
\* pattern.
LogIsUnderstood ==
    /\ sample.about = "line" => MissingIsAnnounced(sample.line)
    /\ sample.about = "requires" =>
          LoaderIsUnderstood("x", "y", sample.version, sample.loader, sample.noise)

\* list_quarantined_mods and restore_quarantined_mod: what was set aside is
\* shown as what a restore finds, and can be brought back.
AsideIsAccounted ==
    /\ sample.about = "aside" =>
          /\ Aside!NoArtifactIsHidden(<<sample.dir>>)
          /\ \A live \in LiveMods :
                /\ Aside!ListingAgrees(sample.dir, live)
                /\ \A c \in Content : Aside!AsideComesBack(sample.dir, <<"a">>, c, live)
    /\ sample.about = "staging" => Aside!PendingBlocksRestore(sample.staging)

BlameIsPrecise ==
    TwoNamedModsAreAmbiguous /\ QuarantineIsPrecise /\ LogIsUnderstood /\ AsideIsAccounted

\* Intersect and AnalyzeLoader: an intersection admits what both constraints
\* admit, and what is called compatible satisfies every requirement.
AdviceIsExact ==
    sample.about = "loader" =>
        /\ Metadata!IntersectionIsExact(sample.needed[1].constraint, sample.needed[2].constraint, sample.current)
        /\ Metadata!AdviceSatisfiesAll("Forge", sample.current, sample.needed, sample.pin)

\* LogRequirements: what a line of the log asks with a mark is read as the full
\* constraint that it writes, which the comment on the fallback says.
FullConstraintIsRead ==
    sample.about = "asks" => \A v \in Versions : Metadata!ConstraintIsRead(sample.line, v)

\* resolve_plugin_descriptors, the compatibility checks, check_plugin_update: the
\* merge of what a JAR says loses no requirement, what the gate admits is not called
\* a mismatch later, and an update that was applied is not offered again; and of
\* a modpack the newest version that fits is found, with its server pack.
ChoicesAreSound ==
    /\ sample.about = "plugin" =>
          /\ Plugins!NeedsAreMerged(sample.jar)
          /\ \A server \in Plugins!PluginServer : Plugins!GateAgrees(sample.jar, server)
    /\ sample.about = "update" =>
          Plugins!UpdateSettles(sample.provider, sample.versions, sample.current)
    /\ sample.about = "pack" =>
          /\ \A game \in {"1.20", "1.21", "unset"}, loader \in {"forge", "fabric", "unset"} :
                Packs!NewestPackIsResolved(sample.provider, sample.listed, game, loader)
          /\ sample.provider = "CurseForge" =>
                \A game \in {"1.20", "1.21"}, server \in {"Forge", "Fabric", "Paper"} :
                    Packs!ChoiceFitsProfile(sample.listed, game, server)
=============================================================================
