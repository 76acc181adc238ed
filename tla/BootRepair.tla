----------------------------- MODULE BootRepair -----------------------------
(***************************************************************************)
(* The repair of a boot that failed for want of a mod                      *)
(* (attempt_boot_repair of boot_failure_analyzer.rs, with the resolver of  *)
(* dependency_resolver.rs): what the log says is missing is confirmed by   *)
(* the JARs' metadata or by CurseForge's relations, one project is found   *)
(* for it, its file is downloaded into the staged mods, and kept only if   *)
(* it declares the missing mod.  How the log is read for the mod           *)
(* (analyze_boot_failure) comes first, as operators on its lines.          *)
(*                                                                         *)
(* Each file has a name of its own among the staged mods.                  *)
(*                                                                         *)
(* Definitions marked FAULTY are variants, with a plausible bug, of the    *)
(* definition below them; no action uses them.                             *)
(***************************************************************************)
EXTENDS Naturals, FiniteSets, Sequences, FiniteSetsExt

CONSTANTS
    Project,        \* CurseForge projects
    ModId,          \* the mods that a log may miss
    MaxRounds,      \* MAX_BOOT_REPAIR_ROUNDS
    MaxCandidates,  \* MAX_RUNTIME_RELATION_CANDIDATES
    NoMod

ASSUME ConstantsAssumption ==
    MaxRounds \in Nat /\ MaxCandidates \in Nat /\ NoMod \notin ModId

-----------------------------------------------------------------------------
(***************************************************************************)
(* The log of a boot that failed.  A line is a sequence of words, each in  *)
(* quotes of its kind or bare; a bracket is a word.  Words are in lower    *)
(* case, as the phrases that the code looks for; "out of memory" and       *)
(* "class file version" stand with the names of their errors.              *)
(***************************************************************************)

Bare(w) == [word |-> w, quote |-> "no"]
Quoted(w) == [word |-> w, quote |-> "single"]
Doubly(w) == [word |-> w, quote |-> "double"]

\* What is left when a text is trimmed of quotes that its last word opened.
Unclosed(w) == IF w.quote = "no" THEN w ELSE [w EXCEPT !.quote = "open"]

None == [source |-> "none"]
Source == {"ForgeLoader", "FabricLoader", "QuiltLoader"}
Missing(requesting, missing, version) ==
    [requesting |-> requesting, missing |-> missing, version |-> version, source |-> "ForgeLoader"]

-----------------------------------------------------------------------------
(***************************************************************************)
(* Phrases in a line.                                                      *)
(***************************************************************************)

\* The places where a phrase of bare words begins, and the first, or 0.
Places(line, phrase) ==
    {i \in 1..(Len(line) + 1 - Len(phrase)) :
        \A k \in DOMAIN phrase : line[i + k - 1] = Bare(phrase[k])}
Place(line, phrase) ==
    IF Places(line, phrase) = {} THEN 0 ELSE Min(Places(line, phrase))
Has(line, word) == Place(line, <<word>>) # 0

After(line, i) == SubSeq(line, i, Len(line))
Bracket == {Bare("("), Bare(")"), Bare(",")}
Comparison == {Bare(">="), Bare("<="), Bare(">"), Bare("<"), Bare("=")}

\* extract_version_constraint: what the first brackets hold, without the
\* comparison before it; <<>> for none.
VersionConstraint(line) ==
    LET open == Place(line, <<"(">>)
        close == Place(After(line, open), <<")">>)
        inside == SubSeq(line, open + 1, open + close - 2)
    IN IF open = 0 \/ close = 0 \/ inside = <<>> THEN <<>>
       ELSE IF Head(inside) \in Comparison THEN Tail(inside) ELSE inside

-----------------------------------------------------------------------------
(***************************************************************************)
(* The patterns.                                                           *)
(***************************************************************************)

RequiresMod == <<"requires", "mod">>

\* parse_quoted_requires: 'X' requires mod 'Y'.
QuotedRequires(line) ==
    LET marks == {i \in Places(line, RequiresMod) :
                    /\ i > 1 /\ i + 2 \in DOMAIN line
                    /\ line[i - 1].quote = "single" /\ line[i + 2].quote = "single"}
    IN IF marks = {} THEN None
       ELSE LET i == Min(marks)
            IN Missing(<<line[i - 1].word>>, Bare(line[i + 2].word), VersionConstraint(After(line, i + 3)))

\* parse_unquoted_requires: the requesting mod is what follows a "Mod" that
\* begins the line.
UnquotedRequires(line) ==
    LET i == Place(line, RequiresMod)
        before == SubSeq(line, 1, i - 1)
        after == After(line, i + 2)
    IN IF i = 0 \/ after = <<>> \/ Head(after) \in Bracket THEN None
       ELSE Missing(IF before # <<>> /\ Head(before) = Bare("mod")
                    THEN [k \in DOMAIN Tail(before) |-> Tail(before)[k].word] ELSE <<>>,
                    Bare(Head(after).word), VersionConstraint(after))

Requires(line) ==
    IF QuotedRequires(line) # None THEN QuotedRequires(line) ELSE UnquotedRequires(line)

ForgeRequires(line) == IF Place(line, RequiresMod) # 0 THEN Requires(line) ELSE None

ForgeMissingMandatory(line) ==
    LET i == Place(line, <<"missing", "mandatory", "dependency">>)
        after == After(line, i + 3)
    IN IF i = 0 \/ after = <<>> \/ Head(after) \in Bracket THEN None
       ELSE Missing(<<>>, Bare(Head(after).word), <<>>)

\* parse_forge_requires_version: the last word between the two, trimmed of quotes
\* as a whole; the version is the word that follows.
ForgeRequiresVersion(line) ==
    LET requires == Place(line, <<"requires">>)
        version == Place(line, <<"version">>)
        between == SubSeq(line, requires + 1, version - 1)
        after == After(line, version + 1)
    IN IF requires = 0 \/ version = 0 \/ between = <<>> THEN None
       ELSE Missing(<<>>,
                    IF Len(between) = 1 THEN Bare(between[1].word) ELSE Unclosed(between[Len(between)]),
                    IF after = <<>> \/ Head(after) \in Bracket THEN <<>> ELSE <<Head(after)>>)

From(source, parsed) == IF parsed = None THEN None ELSE [parsed EXCEPT !.source = source]

FabricModResolution(line) ==
    IF Has(line, "ModResolutionException") THEN From("FabricLoader", Requires(line)) ELSE None

QuiltModResolution(line) ==
    IF Has(line, "quilt") /\ (Has(line, "ModResolutionException") \/ Has(line, "requires"))
    THEN From("QuiltLoader", Requires(line)) ELSE None

\* The patterns in the order in which a line is tried against them.
PatternsWithForgeFirst(line) == \* FAULTY
    <<ForgeRequires(line), FabricModResolution(line), QuiltModResolution(line),
      ForgeMissingMandatory(line), ForgeRequiresVersion(line)>>
Patterns(line) ==
    <<FabricModResolution(line), QuiltModResolution(line), ForgeRequires(line),
      ForgeMissingMandatory(line), ForgeRequiresVersion(line)>>

\* parse_boot_log_for_missing_deps: the first pattern of the first line that has one.
FirstOf(parsed) ==
    LET found == SelectSeq(parsed, LAMBDA p : p # None)
    IN IF found = <<>> THEN None ELSE Head(found)
ParseLine(line) == FirstOf(Patterns(line))
MissingDeps(lines) == FirstOf([i \in DOMAIN lines |-> ParseLine(lines[i])])

\* analyze_boot_failure, with is_oom_log and is_wrong_java_log.
Says(lines, words) == \E i \in DOMAIN lines, w \in words : Has(lines[i], w)
AnalyzeBootFailure(lines) ==
    CASE Says(lines, {"OutOfMemoryError"}) -> "OutOfMemory"
      [] ~Says(lines, {"OutOfMemoryError"}) /\ Says(lines, {"UnsupportedClassVersionError"}) ->
            "WrongJavaVersion"
      [] OTHER -> IF MissingDeps(lines) = None THEN "Unknown" ELSE MissingDeps(lines)

-----------------------------------------------------------------------------
\* DependencyResolution: of a project that is asked for its files, and before.
Answers == {"Resolved", "Incompatible", "Ambiguous", "NotFound"}
Step == {"start", "analyze", "verify", "resolve", "probe", "download", "identify", "done"}
Record == {"Repaired", "Failed", "Skipped"}

VARIABLES
    log,        \* the mod that the log misses first, if that is what failed
    graph,      \* does the graph confirm that it is needed?
    related,    \* the unknown REQUIRED projects of the requesting mod
    declares,   \* the mods that the file of each project declares
    mapped,     \* mod_id_to_projects: how often each project is listed
    tried,      \* attempted_mod_ids and attempted_projects of the resolver
    attempted,  \* attempted_mod_ids of the repair
    mods,       \* the projects that have a file, whole or not, among the staged mods
    left,       \* history: those whose copy, or whose removal, has failed
    chosen,     \* the project that is downloaded, if any
    unprobed,   \* the candidates still to be probed
    matched,    \* the candidate that declares the mod, if any
    round,
    pc,
    records,    \* what the rounds recorded
    repaired    \* the answer

world == <<log, graph, related, declares>>
resolver == <<mapped, tried>>
search == <<chosen, unprobed, matched>>
staged == <<mods, left>>
answer == <<records, repaired>>
vars == <<world, resolver, search, attempted, staged, round, pc, answer>>

TypeOK ==
    /\ log \in ModId \cup {NoMod}
    /\ graph \in BOOLEAN
    /\ related \subseteq Project
    /\ declares \in [Project -> SUBSET ModId]
    /\ mapped \in [ModId -> [Project -> Nat]]
    /\ tried \subseteq Project \cup ModId
    /\ attempted \subseteq ModId
    /\ mods \subseteq Project
    /\ left \subseteq Project
    /\ chosen \subseteq Project
    /\ unprobed \subseteq Project
    /\ matched \subseteq Project
    /\ round \in 0..MaxRounds
    /\ pc \in Step
    /\ records \subseteq Record
    /\ repaired \in BOOLEAN

\* The resolver knows the mods of the projects of the pack.
Init ==
    /\ log \in ModId \cup {NoMod}
    /\ graph \in BOOLEAN
    /\ related \in SUBSET Project
    /\ declares \in [Project -> SUBSET ModId]
    /\ mapped \in [ModId -> [Project -> 0..1]]
    /\ \A m \in ModId, p \in Project : mapped[m][p] = 1 => m \in declares[p] /\ p \notin related
    /\ tried = {}
    /\ attempted = {}
    /\ mods = {} /\ left = {}
    /\ chosen = {} /\ unprobed = {} /\ matched = {}
    /\ round = 0
    /\ pc = "start"
    /\ records = {}
    /\ repaired = FALSE

-----------------------------------------------------------------------------
Goto(step) == pc' = step /\ UNCHANGED answer

\* Every return of attempt_boot_repair says repaired: false.
Return(new) == records' = records \cup new /\ pc' = "done" /\ repaired' = FALSE

\* A success is recorded; the next round begins.
Success == records' = records \cup {"Repaired"} /\ pc' = "start" /\ UNCHANGED repaired

Begin ==
    /\ pc = "start"
    /\ \/ round < MaxRounds /\ round' = round + 1 /\ Goto("analyze")
       \/ round = MaxRounds /\ UNCHANGED round /\ Return({})
    /\ UNCHANGED <<world, resolver, search, attempted, staged>>

\* analyze_boot_failure reads the same log in every round: another failure,
\* or a mod that was attempted, ends the repair.
Analyze ==
    /\ pc = "analyze"
    /\ IF log = NoMod \/ log \in attempted THEN Return({"Skipped"}) ELSE Goto("verify")
    /\ UNCHANGED <<world, resolver, search, attempted, staged, round>>

\* verify_attribution: the graph or a relation must confirm.
Confirmed == graph \/ related # {}

Verify ==
    /\ pc = "verify"
    /\ \/ Confirmed /\ attempted' = attempted \cup {log} /\ Goto("resolve")
       \/ ~Confirmed /\ UNCHANGED attempted /\ Return({"Failed"})
    /\ UNCHANGED <<world, resolver, search, staged, round>>

\* project_for_mod_id: a project that is listed twice is two.
Listings(m) == UNION {{<<p, k>> : k \in 1..mapped[m][p]} : p \in Project}

\* DependencyResolver::resolve, as far as it goes without asking CurseForge;
\* an empty answer is a project to ask.
Unasked(m) ==
    LET projects == {l[1] : l \in Listings(m)}
    IN CASE m \in tried -> "AlreadyProvided"
         [] m \notin tried /\ Listings(m) = {} -> "Unsupported"
         [] m \notin tried /\ Cardinality(Listings(m)) > 1 -> "Ambiguous"
         [] m \notin tried /\ Cardinality(Listings(m)) = 1 /\ projects \subseteq tried -> "AlreadyProvided"
         [] OTHER -> "none"

\* A mod that no project is known for is looked for among the related ones,
\* if there are any, and not too many.
Probable == related # {} /\ Cardinality(related) <= MaxCandidates
Unresolved(kind) ==
    \/ /\ kind \in {"Unsupported", "NotFound"} /\ Probable
       /\ unprobed' = related
       /\ Goto("probe")
    \/ /\ kind \notin {"Unsupported", "NotFound"} \/ ~Probable
       /\ UNCHANGED unprobed
       /\ Return({"Failed"})

\* resolve_from_project: CurseForge fails, or has no file, one or several, for
\* this game and loader; one whose version is constrained does not count.
Resolve ==
    /\ pc = "resolve"
    /\ \/ /\ Unasked(log) # "none"
          /\ tried' = tried \cup {log}
          /\ Unresolved(Unasked(log))
          /\ UNCHANGED chosen
       \/ /\ Unasked(log) = "none"
          /\ \E l \in Listings(log), kind \in Answers :
                /\ tried' = tried \cup {log, l[1]}
                /\ \/ kind = "Resolved" /\ chosen' = {l[1]} /\ UNCHANGED unprobed /\ Goto("download")
                   \/ kind # "Resolved" /\ UNCHANGED chosen /\ Unresolved(kind)
    /\ UNCHANGED <<world, mapped, matched, attempted, staged, round>>

\* download_resolved_dependency: nothing, or one archive among the staged mods;
\* a copy that fails may leave a part of it there, which nobody removes.
CopyFails(p) == mods' = mods \cup {p} /\ left' = left \cup {p}

\* remove_rejected_artifact ignores what it cannot remove.
Discard(rejected) ==
    \E kept \in SUBSET rejected :
        /\ mods' = (mods \ rejected) \cup kept
        /\ left' = left \cup kept

Download ==
    /\ pc = "download"
    /\ \E p \in chosen :
        \/ mods' = mods \cup {p} /\ UNCHANGED left /\ Goto("identify")
        \/ UNCHANGED staged /\ Return({"Failed"})
        \/ CopyFails(p) /\ Return({"Failed"})
    /\ UNCHANGED <<world, resolver, search, attempted, round>>

\* register_project adds the project to the list of each mod that it declares.
Register(p) ==
    mapped' = [m \in ModId |-> [q \in Project |->
        mapped[m][q] + (IF q = p /\ m \in declares[p] THEN 1 ELSE 0)]]

\* verify_download_identity; what fails it is removed again.
AnythingDeclared(p) == declares[p] # {} \* FAULTY
Declared(p) == log \in declares[p]

Identify ==
    /\ pc = "identify"
    /\ \E p \in chosen :
        \/ Declared(p) /\ Register(p) /\ UNCHANGED staged /\ Success
        \/ ~Declared(p) /\ UNCHANGED mapped /\ Discard({p}) /\ Return({"Failed"})
    /\ UNCHANGED <<world, tried, search, attempted, round>>

\* try_runtime_only_resolution, candidate by candidate: one that cannot be had
\* is passed over, one that does not declare the mod is discarded; a second match
\* discards both.
TheSecond(p) == {p} \* FAULTY
Matches(p) == matched \cup {p}

Probe ==
    /\ pc = "probe"
    /\ \E p \in unprobed :
        /\ unprobed' = unprobed \ {p}
        /\ tried' = tried \cup {p}
        /\ \/ UNCHANGED <<matched, staged>> /\ Goto("probe")
           \/ CopyFails(p) /\ UNCHANGED matched /\ Goto("probe")
           \/ ~Declared(p) /\ Discard({p}) /\ UNCHANGED matched /\ Goto("probe")
           \/ /\ Declared(p) /\ matched = {} /\ matched' = {p}
              /\ mods' = mods \cup {p} /\ UNCHANGED left
              /\ Goto("probe")
           \/ Declared(p) /\ matched # {} /\ matched' = {} /\ Discard(Matches(p)) /\ Return({"Failed"})
    /\ UNCHANGED <<world, mapped, chosen, attempted, round>>

\* RuntimeResolved: the only match is registered, and stays.
Probed ==
    /\ pc = "probe"
    /\ unprobed = {}
    /\ \/ matched = {} /\ UNCHANGED mapped /\ Return({"Failed"})
       \/ \E p \in matched : Register(p) /\ Success
    /\ UNCHANGED <<world, tried, search, attempted, staged, round>>

Next == Begin \/ Analyze \/ Verify \/ Resolve \/ Download \/ Identify \/ Probe \/ Probed

Spec == Init /\ [][Next]_vars

-----------------------------------------------------------------------------
\* A repair adds what it says, or nothing: after a success there is one new
\* file, which declares the missing mod, after a failure none, so that
\* rejected and ambiguous candidates leave nothing in the staged mods; but for
\* what a copy left that failed, or a removal.  Such a file is never taken for
\* the repair.
RepairIsExact ==
    pc = "done" =>
        IF "Repaired" \in records
        THEN \E p \in Project : mods \ left = {p} /\ log \in declares[p]
        ELSE mods \ left = {}

(***************************************************************************)
(* A property that the code does not have.                                 *)
(***************************************************************************)

\* repaired: "Whether repair succeeded (at least one dependency repaired)."
RepairIsReported == pc = "done" => (repaired <=> "Repaired" \in records)

(***************************************************************************)
(* Properties of the reading.  The lines that the loaders write are those  *)
(* of the comments and tests of the code.                                  *)
(***************************************************************************)

At(k) == IF k = "" THEN <<>> ELSE <<Bare(k)>>
Bracketed(version) ==
    IF version = "" THEN <<>> ELSE <<Bare("("), Bare(">="), Bare(version), Bare(")")>>
RequiresLine(prefix, x, y, version) ==
    At(prefix) \o <<Bare("mod"), x>> \o <<Bare("requires"), Bare("mod"), y>> \o Bracketed(version)

\* A line in which a loader says that one mod requires another is read as just
\* that, with the version and as of that loader, whatever was logged before and
\* after it about no mod.
LoaderIsUnderstood(x, y, version, loader, noise) ==
    LET prefix == CASE loader = "FabricLoader" -> "ModResolutionException"
                    [] loader = "QuiltLoader" -> "quilt"
                    [] OTHER -> "ERROR"
        line == RequiresLine(prefix, Quoted(x), Quoted(y), version)
        read == AnalyzeBootFailure(noise \o <<line>> \o noise)
    IN MissingDeps(noise) = None /\ AnalyzeBootFailure(noise) = "Unknown" =>
         read = [requesting |-> <<x>>, missing |-> Bare(y),
                 version |-> IF version = "" THEN <<>> ELSE <<Bare(version)>>, source |-> loader]

\* What is read of any line as the missing mod is a word of the line that
\* follows what announces it.
MissingIsAnnounced(line) ==
    LET read == ParseLine(line)
    IN read # None =>
         \E i \in DOMAIN line :
            /\ line[i].word = read.missing.word
            /\ \E k \in 1..(i - 1) : line[k] \in {Bare("requires"), Bare("dependency")}

(***************************************************************************)
(* Properties that the code does not have.                                 *)
(***************************************************************************)

\* The requesting mod is known from a line that names it: not when the names are
\* bare and anything, as the time, stands before "Mod".
RequesterIsKnown(prefix, x, y) ==
    ParseLine(RequiresLine(prefix, Bare(x), Bare(y), "")).requesting = <<x>>

\* A missing mod is named without quotes: the quotes of "requires the 'y' version 1"
\* are trimmed from the whole, which leaves the first.
NameIsWhole(line) == ParseLine(line) # None => ParseLine(line).missing.quote = "no"

\* What is missing is a mod: of "requires forge version 47" it is the loader.
MissingIsMod(line) ==
    ParseLine(line) # None => ParseLine(line).missing.word \notin {"forge", "minecraft", "java"}
=============================================================================
