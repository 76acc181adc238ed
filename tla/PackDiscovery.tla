--------------------------- MODULE PackDiscovery ---------------------------
(***************************************************************************)
(* Which version of a modpack is meant: the listings of Modrinth and of    *)
(* CurseForge (modpack_discovery.rs), the version that is resolved from    *)
(* them, and the check of a file against a profile and the file that a     *)
(* link stands for (mod_services.rs).                                      *)
(*                                                                         *)
(* Dates, ids and file names are numbers, game versions and loaders are    *)
(* names: of a text only what is compared is kept.  Names are compared     *)
(* without case.                                                           *)
(***************************************************************************)
EXTENDS Integers, Sequences, FiniteSets, SequencesExt

Unset == "unset"    \* an Option that is None
NoPack == 0         \* no id, and no file name: those are other numbers

KNOWN_LOADERS == {"forge", "fabric", "neoforge", "quilt"}

ModrinthChannel(type) ==
    CASE type \in {"release", Unset} -> "Release"
      [] type = "alpha" -> "Alpha"
      [] OTHER -> "Beta"

CurseForgeChannel(releaseType) ==
    CASE releaseType = 1 -> "Release"
      [] releaseType = 3 -> "Alpha"
      [] OTHER -> "Beta"

-----------------------------------------------------------------------------
(***************************************************************************)
(* Listings.  A candidate has its id, channel and date, the games and      *)
(* loaders it is for, whether it is a server pack, and of which file, and  *)
(* the server pack that belongs to it.                                     *)
(***************************************************************************)

First(seq, Test(_)) == seq[CHOOSE i \in DOMAIN seq : Test(seq[i]) /\ \A j \in 1..(i - 1) : ~Test(seq[j])]
Has(seq, Test(_)) == \E i \in DOMAIN seq : Test(seq[i])

\* pick_mrpack_file: the primary one, or the first .mrpack, or the first.
MrpackFile(files) ==
    IF Has(files, LAMBDA f : f.primary) THEN First(files, LAMBDA f : f.primary)
    ELSE IF Has(files, LAMBDA f : f.mrpack) THEN First(files, LAMBDA f : f.mrpack)
    ELSE Head(files)

\* parse_modrinth_versions: a version without files is none.
ModrinthCandidates(versions) ==
    LET listed == SelectSeq(versions, LAMBDA v : v.files # <<>>)
    IN [i \in DOMAIN listed |->
           [id |-> listed[i].id, file |-> MrpackFile(listed[i].files).name,
            channel |-> ModrinthChannel(listed[i].type), date |-> listed[i].date,
            games |-> listed[i].games, loaders |-> listed[i].loaders,
            isServerPack |-> FALSE, parent |-> NoPack, serverPack |-> NoPack]]

\* split_curseforge_game_versions: what starts with a digit is a game, of the
\* rest the known loaders are kept, and "Client" or "Java 17" are dropped.
GamesOf(tokens) == {t.name : t \in {u \in tokens : u.digit}}
LoadersOf(tokens) == {t.name : t \in {u \in tokens : ~u.digit}} \cap KNOWN_LOADERS

\* parse_curseforge_files
CurseForgeCandidates(files) ==
    [i \in DOMAIN files |->
        [id |-> files[i].id, file |-> files[i].name,
         channel |-> CurseForgeChannel(files[i].releaseType), date |-> files[i].date,
         games |-> GamesOf(files[i].tokens), loaders |-> LoadersOf(files[i].tokens),
         isServerPack |-> files[i].isServerPack, parent |-> files[i].parent, serverPack |-> NoPack]]

\* associate_curseforge_server_packs: of several server packs the last one
\* listed stays with its parent, which is the first file with that id that is
\* not a server pack itself.
Associated(cands) ==
    LET packsOf(c) == SelectSeq(cands, LAMBDA d : d.isServerPack /\ d.parent = c.id)
        isParent(i) == ~cands[i].isServerPack
                       /\ \A j \in 1..(i - 1) : cands[j].id # cands[i].id \/ cands[j].isServerPack
    IN [i \in DOMAIN cands |->
           IF isParent(i) /\ packsOf(cands[i]) # <<>>
           THEN [cands[i] EXCEPT !.serverPack = Last(packsOf(cands[i])).id]
           ELSE cands[i]]

\* list_modpack_versions: the provider filters by what is given.
Listing(provider, answer) ==
    IF provider = "Modrinth" THEN ModrinthCandidates(answer)
    ELSE Associated(CurseForgeCandidates(answer))

-----------------------------------------------------------------------------
(***************************************************************************)
(* resolve_modpack_version.                                                *)
(***************************************************************************)

\* compatible_with: an empty text is an answer, and no version is for it.
CompatibleWith(c, game, loader) ==
    (game # Unset => game \in c.games) /\ (loader # Unset => loader \in c.loaders)

Before(c, d) == c.date > d.date \/ (c.date = d.date /\ c.id > d.id)

Resolved(c) == [status |-> "resolved", version |-> c]

\* The id or file name that is asked for wins; or else the newest compatible
\* one, a stable one if there is one, or the server pack that belongs to it.
Resolve(cands, explicit, game, loader) ==
    IF explicit # NoPack
    THEN IF Has(cands, LAMBDA c : explicit \in {c.id, c.file})
         THEN Resolved(First(cands, LAMBDA c : explicit \in {c.id, c.file}))
         ELSE [status |-> "not found"]
    ELSE LET pool == {c \in Range(cands) : CompatibleWith(c, game, loader)}
             stable == {c \in pool : c.channel = "Release"}
             sorted == IF stable = {} THEN pool ELSE stable
             best == CHOOSE c \in sorted : \A d \in sorted \ {c} : Before(c, d)
         IN IF pool = {} THEN [status |-> "none"]
            ELSE IF best.serverPack # NoPack /\ Has(cands, LAMBDA c : c.id = best.serverPack)
            THEN Resolved(First(cands, LAMBDA c : c.id = best.serverPack))
            ELSE Resolved(best)

-----------------------------------------------------------------------------
(***************************************************************************)
(* Files of CurseForge.                                                    *)
(***************************************************************************)

\* expected_curseforge_loader
ExpectedLoader(server) ==
    CASE server = "Forge" -> "forge"
      [] server = "Fabric" -> "fabric"
      [] server = "NeoForge" -> "neoforge"
      [] OTHER -> Unset

\* validate_curseforge_file_for_profile: any token may name the game.
FitsProfile(file, game, server) ==
    /\ game \in {t.name : t \in file.tokens}
    /\ ExpectedLoader(server) # Unset => ExpectedLoader(server) \in LoadersOf(file.tokens)

\* parse_curseforge_url and cfwidget_find_file: the file that a link names, or
\* the first of the project, whatever its channel and its game.
LinkedFile(files, asked) ==
    IF asked # NoPack
    THEN IF Has(files, LAMBDA f : f.id = asked)
         THEN Resolved(First(files, LAMBDA f : f.id = asked)) ELSE [status |-> "not found"]
    ELSE IF files = <<>> THEN [status |-> "not found"] ELSE Resolved(Head(files))

Digits(n) == CHOOSE d \in 1..9 : 10^(d - 1) <= n /\ n < 10^d

\* curseforge_cdn_parts, and curseforge_cdn_url for a link: the first four
\* digits, and the others without the zeros in front.
Empty == -1
CdnParts(id) ==
    IF id <= 0 \/ Digits(id) <= 4 THEN [status |-> "invalid"]
    ELSE LET k == Digits(id) - 4
         IN [status |-> "valid", dir |-> id \div 10^k, sub |-> id % 10^k]
CdnUrl(id) ==
    IF Digits(id) <= 4 THEN [status |-> "valid", dir |-> id, sub |-> 0]
    ELSE LET k == Digits(id) - 4
         IN [status |-> "valid", dir |-> id \div 10^k,
             sub |-> IF id % 10^k = 0 THEN Empty ELSE id % 10^k]

-----------------------------------------------------------------------------
(***************************************************************************)
(* Properties.                                                             *)
(***************************************************************************)

\* resolve_modpack_version on a listing: a version that fits, or the server pack
\* of one that fits; nothing that fits is newer, and stable if that is stable;
\* and no client pack while its server pack is in the listing.
NewestPackIsResolved(provider, listed, game, loader) ==
    LET cands == Listing(provider, listed)
        answer == Resolve(cands, NoPack, game, loader)
        fit == {c \in Range(cands) : CompatibleWith(c, game, loader)}
        isBest(c) == \A d \in fit \ {c} :
            IF d.channel = "Release" THEN c.channel = "Release" /\ c.date >= d.date
            ELSE c.channel = "Release" \/ c.date >= d.date
    IN /\ (answer.status = "none") <=> (fit = {})
       /\ answer.status = "resolved" =>
             /\ \E c \in fit :
                   /\ isBest(c)
                   /\ \/ answer.version = c
                      \/ answer.version.isServerPack /\ answer.version.parent = c.id
             /\ ~answer.version.isServerPack =>
                   \A d \in Range(cands) : ~(d.isServerPack /\ d.parent = answer.version.id)

\* The choice of a version and the check of a file against the profile are made
\* apart from each other and agree about every client pack.
ChoiceFitsProfile(files, game, server) ==
    \A i \in DOMAIN files :
        CompatibleWith(CurseForgeCandidates(files)[i], game, ExpectedLoader(server))
        <=> FitsProfile(files[i], game, server)

(***************************************************************************)
(* A property that the code does not have.                                 *)
(***************************************************************************)

\* The two ways to name a file of the CDN are the same (mod_services.rs:4634):
\* not for an id whose digits after the fourth are zeros.
NamesAgree(id) == CdnParts(id).status = "valid" => CdnUrl(id) = CdnParts(id)
=============================================================================
