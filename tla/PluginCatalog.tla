---------------------------- MODULE PluginCatalog ----------------------------
(***************************************************************************)
(* What jar_metadata.rs and plugin_services.rs compute about plugins       *)
(* without touching disk: the descriptors of a JAR, merged into one, its   *)
(* compatibility with a server, the version that an install or an update   *)
(* chooses, the hash that is verified, the removals that are blocked.      *)
(*                                                                         *)
(* A list whose order the code does not use is a set; an absent value is   *)
(* "none".  Definitions marked FAULTY are variants, with a plausible bug,  *)
(* of the definition below them.                                           *)
(***************************************************************************)
EXTENDS Naturals, Sequences, FiniteSets, SequencesExt

Provider == {"Modrinth", "Hangar", "CurseForge", "SpigotMC", "Manual"}
ProxyPlatform == {"Velocity", "Waterfall", "BungeeCord"}
GamePlatform == {"Bukkit", "Spigot", "Paper", "Purpur", "Folia"}
Platform == ProxyPlatform \cup GamePlatform \cup {"Unknown"}
PluginServer == GamePlatform    \* the server types that take plugins

\* get_plugin_provider_capabilities: who can be searched and downloaded from.
Searchable(provider) == provider \in {"Modrinth", "Hangar"}

-----------------------------------------------------------------------------
(***************************************************************************)
(* Descriptors.  One has a source, a name, a main class, its view of Folia *)
(* and three sets of dependencies.                                         *)
(***************************************************************************)

\* What a file says of another plugin, under the key or load mode `said', and
\* what that makes of it.  Keys that the parser does not know are dropped.
KindOf(source, said) ==
    CASE source = "plugin.yml" /\ said = "depend" -> "depend"
      [] source = "plugin.yml" /\ said = "softdepend" -> "soft"
      [] source = "plugin.yml" /\ said = "loadbefore" -> "before"
      [] source = "paper-plugin.yml" /\ said \in {"REQUIRED", "absent"} -> "depend"
      [] source = "paper-plugin.yml" /\ said \in {"OPTIONAL", "AFTER"} -> "soft"
      [] source = "paper-plugin.yml" /\ said = "BEFORE" -> "before"
      [] source = "velocity-plugin.json" /\ said \in {"false", "absent"} -> "depend"
      [] source = "velocity-plugin.json" /\ said = "true" -> "soft"
      [] source = "bungee.yml" /\ said = "depend" -> "depend"
      [] source = "bungee.yml" /\ said = "softDepends" -> "soft"
      [] source = "bungee.yml" /\ said = "loadBefore" -> "before"
      [] OTHER -> "dropped"

\* The view of Folia: folia-supported hides folia, even where it is no boolean.
\* A proxy's descriptor has none.
FoliaOf(source, text) ==
    LET said == IF text.foliaSupported # "absent" THEN text.foliaSupported ELSE text.folia
    IN IF source \in {"plugin.yml", "paper-plugin.yml"} /\ said \in {"yes", "no"} THEN said ELSE "none"

\* parse_bukkit_plugin_yml, parse_paper_plugin_yml, parse_velocity_plugin_json,
\* parse_bungee_yml: one descriptor, or none for a text without name and main.
Parsed(source, text) ==
    LET name == IF source = "velocity-plugin.json" /\ text.name = "none" THEN text.id ELSE text.name
        named(kind) == {d.name : d \in {e \in text.deps : KindOf(source, e.said) = kind}}
    IN IF name = "none" /\ text.main = "none" THEN <<>>
       ELSE <<[source |-> source, name |-> name, main |-> text.main, folia |-> FoliaOf(source, text),
               depend |-> named("depend"), softDepend |-> named("soft"), loadBefore |-> named("before")]>>

\* read_jar_plugin_descriptors: the files of a JAR in this order.
DescriptorFiles == <<"plugin.yml", "paper-plugin.yml", "velocity-plugin.json", "bungee.yml">>
DescriptorsOf(jar) ==
    FoldLeft(LAMBDA descs, f : IF f \in DOMAIN jar THEN descs \o Parsed(f, jar[f]) ELSE descs,
             <<>>, DescriptorFiles)

\* classify_platforms_from_source
PlatformsOf(source) ==
    CASE source = "plugin.yml" -> {"Bukkit", "Spigot", "Paper", "Purpur"}
      [] source = "paper-plugin.yml" -> {"Paper"}
      [] source = "velocity-plugin.json" -> {"Velocity"}
      [] source = "bungee.yml" -> {"BungeeCord", "Waterfall"}
      [] OTHER -> {"Unknown"}

\* descriptor_family
Family(source) ==
    CASE source \in {"plugin.yml", "paper-plugin.yml"} -> "Bukkit"
      [] source \in {"velocity-plugin.json", "bungee.yml"} -> "Proxy"
      [] OTHER -> "Unknown"

OfFamily(descs, family) == SelectSeq(descs, LAMBDA d : Family(d.source) = family)

Differ(x, y) == x # "none" /\ y # "none" /\ x # y

\* What a later descriptor of the family adds to the first one.  A name is
\* taken up once, by the first kind that a later descriptor lists it under.
AbsorbSoftFirst(acc, d) == \* FAULTY
    LET soft == d.softDepend \ acc.seen
        depend == d.depend \ (acc.seen \cup acc.desc.softDepend \cup soft)
    IN [seen |-> acc.seen \cup depend \cup soft,
        desc |-> [acc.desc EXCEPT !.depend = @ \cup depend, !.softDepend = @ \cup soft]]
Absorb(acc, d) ==
    LET depend == d.depend \ acc.seen
        soft == d.softDepend \ (acc.seen \cup depend)
        before == d.loadBefore \ (acc.seen \cup depend \cup soft)
    IN [seen |-> acc.seen \cup depend \cup soft \cup before,
        desc |-> [acc.desc EXCEPT
            !.name = IF @ = "none" THEN d.name ELSE @,
            !.main = IF @ = "none" THEN d.main ELSE @,
            !.depend = @ \cup depend,
            !.softDepend = @ \cup soft,
            !.loadBefore = @ \cup before]]

\* resolve_plugin_descriptors: nothing, an ambiguous plugin without platforms,
\* or the merge of one family.
Nothing == [kind |-> "nothing", platforms |-> {}]
Ambiguous(descs) ==
    [kind |-> "ambiguous", desc |-> [Head(descs) EXCEPT !.source = "ambiguous"], platforms |-> {}]

ResolveDescriptors(descs) ==
    LET bukkit == OfFamily(descs, "Bukkit")
        proxy == OfFamily(descs, "Proxy")
        family == IF bukkit # <<>> THEN bukkit ELSE proxy
        rest == Tail(family)
        conflict == \E i \in DOMAIN rest :
            \/ Differ(Head(family).name, rest[i].name)
            \/ Differ(Head(family).main, rest[i].main)
    IN CASE family = <<>> -> Nothing
         [] bukkit # <<>> /\ proxy # <<>> -> Ambiguous(descs)
         [] family # <<>> /\ conflict -> Ambiguous(descs)
         [] OTHER ->
            [kind |-> "merged",
             desc |-> FoldLeft(Absorb, [seen |-> {}, desc |-> Head(family)], rest).desc,
             platforms |-> UNION {PlatformsOf(family[i].source) : i \in DOMAIN family}]

\* detect_folia_evidence: the first descriptor that says something.
FoliaEvidence(descs) ==
    LET said == SelectSeq(descs, LAMBDA d : d.folia # "none")
    IN IF said = <<>> THEN "none" ELSE Head(said).folia

\* plugin_info_from_descriptor and its two fallbacks; scan_plugin_directory
\* binds the receipt's identity only to a plugin with descriptors.
InfoOf(file, descs, readable, receipt, hash) ==
    LET r == ResolveDescriptors(descs)
        trusted == receipt.hash = hash
        unknown == [file |-> file, status |-> "UnknownMetadata", name |-> "none",
                    platforms |-> {}, provider |-> "none", project |-> "none",
                    folia |-> "none", needs |-> {}]
    IN CASE ~readable -> [unknown EXCEPT !.status = "Unreadable"]
         [] readable /\ r.kind = "nothing" -> unknown
         [] OTHER ->
            [unknown EXCEPT
               !.status = IF r.kind = "ambiguous" THEN "UnknownMetadata" ELSE "Readable",
               !.name = r.desc.name,
               !.folia = FoliaEvidence(descs),
               !.needs = r.desc.depend,
               !.platforms = IF trusted /\ r.platforms \in {{}, {"Unknown"}}
                             THEN receipt.platforms ELSE r.platforms,
               !.provider = IF trusted THEN receipt.provider ELSE "none",
               !.project = IF trusted THEN receipt.project ELSE "none"]

-----------------------------------------------------------------------------
(***************************************************************************)
(* Compatibility.                                                          *)
(***************************************************************************)

\* The platforms whose plugins a server of a type takes.
Accepts(server) ==
    CASE server = "Bukkit" -> GamePlatform
      [] server = "Spigot" -> GamePlatform \ {"Bukkit"}
      [] server = "Paper" -> {"Paper", "Purpur", "Folia"}
      [] server = "Purpur" -> GamePlatform
      [] server = "Folia" -> {"Folia", "Paper", "Purpur"}
      [] OTHER -> {}

\* check_plugin_platform_compatibility
PlatformCompatibility(platforms, server) ==
    CASE platforms # {} /\ platforms \subseteq ProxyPlatform -> "ProxyPlugin"
      [] server \notin PluginServer -> "Unknown"
      [] platforms \cap Accepts(server) # {} ->
            IF server # "Folia" THEN "Compatible"
            ELSE IF "Folia" \in platforms THEN "FoliaCompatible" ELSE "FoliaUnknown"
      [] platforms \cap GamePlatform # {} -> "PlatformMismatch"
      [] OTHER -> "Unknown"

\* check_candidate_compatibility: proxies, the Minecraft version, the
\* platforms, and what the provider says of Folia, in this order.
CandidateCompatibility(cand, mc, server, folia) ==
    LET byPlatform == PlatformCompatibility(cand.platforms, server)
        settled == /\ cand.platforms # {}
                   /\ byPlatform # "Compatible"
                   /\ ~(server = "Folia" /\ byPlatform = "FoliaUnknown")
    IN CASE cand.platforms # {} /\ cand.platforms \subseteq ProxyPlatform -> "ProxyMismatch"
         [] cand.games # {} /\ mc \notin cand.games -> "MinecraftVersionMismatch"
         [] settled -> byPlatform
         [] server = "Folia" ->
                CASE folia = "yes" -> "FoliaCompatible"
                  [] folia = "no" -> "FoliaIncompatible"
                  [] OTHER -> "FoliaUnknown"
         [] OTHER -> "Compatible"

\* The gate of an install and of an update.
MayInstall(verdict) == verdict \in {"Compatible", "FoliaCompatible", "FoliaUnknown", "Unknown"}

\* check_installed_plugin_runtime_compat
RuntimeCompatibility(info, server, folia) ==
    CASE info.status = "Unreadable" -> "Unreadable"
      [] info.status = "UnknownMetadata" -> "Unknown"
      [] info.status = "Readable" /\ info.name = "none" -> "Ambiguous"
      [] info.status = "Readable" /\ info.name # "none" ->
         IF server = "Folia"
         THEN CASE folia = "yes" -> "FoliaCompatible"
                [] folia = "no" -> "FoliaIncompatible"
                [] OTHER -> "FoliaUnknown"
         ELSE IF info.platforms = {} THEN "Unknown"
         ELSE IF info.platforms \cap ProxyPlatform # {} /\ info.platforms \cap GamePlatform = {}
              THEN "ProxyMismatch" ELSE "Compatible"

-----------------------------------------------------------------------------
(***************************************************************************)
(* The choice of a version.  A version has a channel, a date, the games    *)
(* and platforms it is for; the lists are as the provider answers.         *)
(***************************************************************************)

ChannelPriority(channel) ==
    CASE channel = "release" -> 0 [] channel = "beta" -> 1 [] channel = "alpha" -> 2 [] OTHER -> 3

\* The first of the least elements, as min_by_key and a stable sort return it.
FirstBy(seq, Before(_, _)) ==
    seq[CHOOSE i \in DOMAIN seq :
          /\ \A j \in DOMAIN seq : ~Before(seq[j], seq[i])
          /\ \A j \in 1..(i - 1) : Before(seq[i], seq[j])]

BetterChannel(v, w) == ChannelPriority(v.channel) < ChannelPriority(w.channel)
SameChannel(v, w) == ChannelPriority(v.channel) = ChannelPriority(w.channel)

\* resolve_modrinth_plugin_version with select_best_version: the provider has
\* filtered by game and loader; the least date wins within a channel.
ModrinthInstall(versions) ==
    FirstBy(versions, LAMBDA v, w : BetterChannel(v, w) \/ (SameChannel(v, w) /\ v.date < w.date))

\* check_modrinth_update: versions with files, the newest of the best channel.
\* The loop over the candidates returns at the first.
ModrinthUpdate(versions, current) ==
    LET listed == SelectSeq(versions, LAMBDA v : v.files # {})
        best == FirstBy(listed, LAMBDA v, w : BetterChannel(v, w) \/ (SameChannel(v, w) /\ v.date > w.date))
    IN IF listed = <<>> THEN [status |-> "NoCompatibleUpdate"]
       ELSE IF best.id = current THEN [status |-> "UpToDate"]
       ELSE [status |-> "UpdateAvailable", target |-> best]

\* resolve_hangar_plugin_version: shown, for this game, the best channel.
HangarInstall(versions, mc) ==
    LET usable == SelectSeq(versions, LAMBDA v : ~v.hidden /\ mc \in v.games /\ v.files # {})
    IN IF usable = <<>> THEN [status |-> "NoCompatibleVersion"]
       ELSE [status |-> "Resolved", target |-> FirstBy(usable, BetterChannel)]

\* check_hangar_update: neither pinned nor without downloads; hidden versions
\* and other games count.
HangarUpdate(versions, current) ==
    LET listed == SelectSeq(versions, LAMBDA v : v.files # {} /\ ~v.pinned)
        best == FirstBy(listed, BetterChannel)
    IN IF listed = <<>> THEN [status |-> "NoCompatibleUpdate"]
       ELSE IF best.id = current THEN [status |-> "UpToDate"]
       ELSE [status |-> "UpdateAvailable", target |-> best]

\* check_plugin_update: who is asked, if anybody.
UpdateStatus(info, versions, current) ==
    CASE info.provider = "none" \/ info.project = "none" -> [status |-> "ProviderUnknown"]
      [] info.provider = "Modrinth" -> ModrinthUpdate(versions, current)
      [] info.provider = "Hangar" -> HangarUpdate(versions, current)
      [] OTHER -> [status |-> "ProviderUnknown"]

\* verify_provider_hash: the strongest hash that is published is the one that
\* must match; "none" verifies.
StrongestHash(hashes) ==
    CASE hashes.sha512 # "none" -> hashes.sha512
      [] hashes.sha512 = "none" /\ hashes.sha256 # "none" -> hashes.sha256
      [] OTHER -> hashes.sha1

\* search_plugins: each provider answers for itself; a failure is an empty
\* answer, and every candidate carries its verdict.
Search(answers, mc, server) ==
    [p \in {"Modrinth", "Hangar"} |->
        IF answers[p] = "failed" THEN {}
        ELSE {[cand |-> c, verdict |-> CandidateCompatibility(c, mc, server, "none")] : c \in answers[p]}]

-----------------------------------------------------------------------------
(***************************************************************************)
(* compute_plugin_dependency_graph and check_remove_blockers.              *)
(***************************************************************************)

DuplicateNames(infos) ==
    {n \in {i.name : i \in infos} \ {"none"} : Cardinality({i \in infos : i.name = n}) > 1}

RemoveBlockers(id, infos) == {i.id : i \in {j \in infos : id \in j.needs}}

-----------------------------------------------------------------------------
(***************************************************************************)
(* Properties.                                                             *)
(***************************************************************************)

\* resolve_plugin_descriptors on what a JAR holds: unless the files contradict
\* each other, what one of the family that counts requires, the merge requires,
\* whatever the others say of it.
NeedsAreMerged(jar) ==
    LET merge == ResolveDescriptors(DescriptorsOf(jar))
        counts(f) == \A g \in DOMAIN jar : Family(g) = "Bukkit" => Family(f) = "Bukkit" \/ Parsed(g, jar[g]) = <<>>
    IN merge.kind = "merged" =>
         \A f \in DOMAIN jar : \A d \in jar[f].deps :
             KindOf(f, d.said) = "depend" /\ Parsed(f, jar[f]) # <<>> /\ counts(f)
             => d.name \in merge.desc.depend

\* The gate of an install and the check of what is installed agree: what the
\* gate admits, on the platforms its JAR declares, is not a mismatch later.
GateAgrees(jar, server) ==
    LET descs == DescriptorsOf(jar)
        platforms == ResolveDescriptors(descs).platforms
        receipt == [hash |-> "none", provider |-> "none", project |-> "none", platforms |-> {}]
    IN MayInstall(CandidateCompatibility([platforms |-> platforms, games |-> {}], "1.20", server, "none"))
       => RuntimeCompatibility(InfoOf("a.jar", descs, TRUE, receipt, "hash"), server, "none")
              # "ProxyMismatch"

\* An update that was applied is not offered again, nor is the version before it.
UpdateSettles(provider, versions, current) ==
    LET status(id) == UpdateStatus([provider |-> provider, project |-> "p"], versions, id)
    IN status(current).status = "UpdateAvailable"
       => status(status(current).target.id).status = "UpToDate"
=============================================================================
