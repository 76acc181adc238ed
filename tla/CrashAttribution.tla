-------------------------- MODULE CrashAttribution --------------------------
(***************************************************************************)
(* Which mod a crash is blamed on (crash_attribution.rs), and whether the  *)
(* user is offered to take its JAR away (check_action_availability and     *)
(* revalidate_before_move of recovery_actions.rs).                         *)
(*                                                                         *)
(* A log is a sequence of lines, each of a kind and with what it names.    *)
(* The index gives for each JAR its mod ids, the mixin configurations in   *)
(* it and the side it is for.  An absent value is "none".  Definitions     *)
(* marked FAULTY are variants, with a plausible bug, of the definition     *)
(* below them.                                                             *)
(***************************************************************************)
EXTENDS Naturals, Sequences, FiniteSets, SequencesExt

LOCAL Max2(m, n) == IF m > n THEN m ELSE n

-----------------------------------------------------------------------------
(***************************************************************************)
(* Evidence, one operator per parser.                                      *)
(***************************************************************************)

Evidence(source, mod, jar) == [source |-> source, mod |-> mod, jar |-> jar]
When(guard, evidence) == IF guard THEN <<evidence>> ELSE <<>>
Collect(log, Parse(_)) == FlattenSeq([i \in DOMAIN log |-> Parse(i)])
Mentions(log, kind) == \E i \in DOMAIN log : log[i].kind = kind

\* parse_explicit_mod_ids
ExplicitModIds(log) ==
    Collect(log, LAMBDA i :
        When(log[i].kind \in {"Mod ID", "failed mod"}, Evidence("LoaderDiagnostic", log[i].of, "none"))
        \o When(log[i].kind \in {"entrypoint", "startup"}, Evidence("EntrypointCrash", log[i].of, "none")))

\* parse_explicit_jar_paths
ExplicitJarPaths(log) ==
    Collect(log, LAMBDA i :
        When(log[i].kind \in {"Mod File", "jar"}, Evidence("ExplicitJarPath", "none", log[i].of)))

\* parse_forge_mod_loading_exception: a failure message repeats the first id
\* of the five lines above it.
ModLoadingException(log) ==
    LET above(i) == {j \in Max2(1, i - 5)..(i - 1) : i > 1 /\ log[j].kind = "Mod ID"}
        first(i) == CHOOSE j \in above(i) : \A k \in above(i) : j <= k
        read(i) ==
            CASE log[i].kind = "Mod ID" -> <<Evidence("ModLoadingException", log[i].of, "none")>>
              [] log[i].kind = "Mod File" -> <<Evidence("ModLoadingException", "none", log[i].of)>>
              [] log[i].kind = "Failure message" /\ above(i) # {} ->
                    <<Evidence("ModLoadingException", log[first(i)].of, "none")>>
              [] OTHER -> <<>>
    IN IF Mentions(log, "ModLoading") THEN Collect(log, read) ELSE <<>>

\* parse_fabric_quilt_crash: an entry point is counted here once more.
FabricQuiltCrash(log) ==
    Collect(log, LAMBDA i :
        When(\/ log[i].kind \in {"entrypoint", "startup"}
             \/ /\ log[i].kind = "provided by"
                /\ ~\E j \in 1..(i - 1) :
                        log[j].kind \in {"entrypoint", "startup", "provided by"} /\ log[j].of = log[i].of,
             Evidence("EntrypointCrash", log[i].of, "none")))

\* parse_mixin_attribution: every JAR with that configuration.
MixinAttribution(log, index) ==
    Collect(log, LAMBDA i :
        LET owners == {j \in DOMAIN index : log[i].kind = "mixin config" /\ log[i].of \in index[j].resources}
        IN SetToSeq({Evidence("MixinTarget", "none", j) : j \in owners}))

\* parse_stack_frame_attribution: the longest package, of three names or more
\* and not used before, one of whose names is one mod of one JAR.
Owners(package, index) ==
    {<<j, id>> \in UNION {{j} \X Range(index[j].ids) : j \in DOMAIN index} : Contains(package, id)}
StackFrames(log, index) ==
    LET Read(acc, line) ==
            LET lengths == {n \in 3..Len(line.of) :
                              LET package == SubSeq(line.of, 1, n)
                              IN package \notin acc.seen /\ Cardinality(Owners(package, index)) = 1}
                n == CHOOSE m \in lengths : \A k \in lengths : k <= m
                package == SubSeq(line.of, 1, n)
                owner == CHOOSE o \in Owners(package, index) : TRUE
            IN IF lengths = {} THEN acc
               ELSE [seen |-> acc.seen \cup {package},
                     evidence |-> Append(acc.evidence, Evidence("StackFrame", "none", owner[1]))]
    IN FoldLeft(Read, [seen |-> {}, evidence |-> <<>>],
                SelectSeq(log, LAMBDA line : line.kind = "frame")).evidence

AllEvidence(log, index) ==
    ExplicitModIds(log) \o ExplicitJarPaths(log) \o ModLoadingException(log)
    \o FabricQuiltCrash(log) \o MixinAttribution(log, index) \o StackFrames(log, index)

-----------------------------------------------------------------------------
(***************************************************************************)
(* build_candidates                                                        *)
(***************************************************************************)

MAX_CRASH_CANDIDATES == 10
MAX_EVIDENCE_PER_CANDIDATE == 10
EvidenceScore == [LoaderDiagnostic |-> 100, ModLoadingException |-> 100, EntrypointCrash |-> 100,
                  ExplicitJarPath |-> 90, MixinTarget |-> 70, StackFrame |-> 30]

Providers(index, mod) == {j \in DOMAIN index : Contains(index[j].ids, mod)}
TheOne(S) == IF Cardinality(S) = 1 THEN CHOOSE x \in S : TRUE ELSE "none"
ResolvedJar(index, e) ==
    CASE e.jar \in DOMAIN index -> e.jar
      [] e.mod # "none" -> TheOne(Providers(index, e.mod))
      [] OTHER -> "none"
ResolvedMod(index, e) ==
    LET jar == ResolvedJar(index, e)
    IN CASE e.mod # "none" -> e.mod
         [] jar # "none" /\ Len(index[jar].ids) = 1 -> index[jar].ids[1]
         [] OTHER -> "none"
Key(index, e) == <<ResolvedMod(index, e), ResolvedJar(index, e)>>

Candidate(index, evidence, key) ==
    LET own == SelectSeq(evidence, LAMBDA e : Key(index, e) = key)
    IN [mod |-> key[1], jar |-> key[2],
        score |-> FoldLeft(LAMBDA s, e : s + EvidenceScore[e.source], 0, own),
        evidence |-> {own[i] : i \in {j \in DOMAIN own : j <= MAX_EVIDENCE_PER_CANDIDATE}},
        clientOnly |-> key[2] # "none" /\ index[key[2]].compat = "ClientOnly"]
Candidates(index, evidence) ==
    {Candidate(index, evidence, k) : k \in {Key(index, e) : e \in Range(evidence)} \ {<<"none", "none">>}}

\* The best ten.  Which of two equal ones comes first is not determined.
Kept(candidates) ==
    {K \in SUBSET candidates :
        /\ Cardinality(K) = IF Cardinality(candidates) > MAX_CRASH_CANDIDATES
                            THEN MAX_CRASH_CANDIDATES ELSE Cardinality(candidates)
        /\ \A c \in K, d \in candidates \ K : d.score <= c.score}

-----------------------------------------------------------------------------
(***************************************************************************)
(* determine_attribution and analyze_crash                                 *)
(***************************************************************************)

NamesMod(c) ==
    \E e \in c.evidence :
        e.source \in {"LoaderDiagnostic", "EntrypointCrash", "ModLoadingException"} /\ e.mod # "none"
NamesJar(c) ==
    \E e \in c.evidence : e.source \in {"ExplicitJarPath", "ModLoadingException"} /\ e.jar # "none"
Confidence(index, c) ==
    CASE NamesMod(c) -> "High"
      [] NamesJar(c) /\ c.jar # "none" /\ index[c.jar].ids # <<>> -> "High"
      [] c.mod # "none" /\ \E e \in c.evidence : e.source \in {"MixinTarget", "StackFrame"} -> "Medium"
      [] OTHER -> "Low"

\* Two mods with strong evidence, or a JAR that is not the mod's own.
HighScore == 90
DisagreeAbove100(index, kept) == \* FAULTY
    Cardinality({c.mod : c \in {d \in kept : d.score > 100}} \ {"none"}) > 1
Disagree(index, kept) ==
    \/ Cardinality({c.mod : c \in {d \in kept : d.score >= HighScore}} \ {"none"}) > 1
    \/ \E c \in kept :
        /\ NamesMod(c) /\ NamesJar(c) /\ c.jar # "none" /\ c.mod # "none"
        /\ index[c.jar].ids # <<>> /\ ~Contains(index[c.jar].ids, c.mod)

Attribution(status, confidence, primary) ==
    [status |-> status, confidence |-> confidence, primary |-> primary]
Determine(index, kept, top) ==
    LET confidence == Confidence(index, top)
        ties == \E c \in kept \ {top} : c.score = top.score
    IN IF \/ Disagree(index, kept)
          \/ top.mod # "none" /\ Cardinality(Providers(index, top.mod)) > 1
          \/ top.mod = "none" /\ top.jar # "none" /\ Len(index[top.jar].ids) > 1
       THEN Attribution("Ambiguous", "Low", {})
       ELSE CASE confidence = "High" -> Attribution("Attributed", "High", {top})
              [] confidence = "Medium" /\ ~ties -> Attribution("Attributed", "Medium", {top})
              [] confidence = "Medium" /\ ties -> Attribution("Ambiguous", "Medium", {})
              [] confidence = "Low" /\ top.score >= HighScore -> Attribution("Attributed", "High", {top})
              [] OTHER -> Attribution("Unknown", "Low", {})

\* The reports that may be given: of any of the best, if there are some.  A
\* mod for clients only is reported for that.
Analyze(log, index) ==
    LET evidence == AllEvidence(log, index)
        report(kept, a) ==
            LET client == \E c \in a.primary : c.clientOnly
            IN [status |-> IF client THEN "Attributed" ELSE a.status,
                confidence |-> IF client THEN "High" ELSE a.confidence,
                primary |-> a.primary,
                candidates |-> kept,
                recommendation |->
                    CASE client -> "UnexpectedClientOnlyPresent"
                      [] a.status = "Attributed" -> "ReviewMod"
                      [] a.status = "Ambiguous" -> "ConflictingEvidence"
                      [] OTHER -> "NoSafeRecommendation"]
    IN UNION {IF kept = {} THEN {report({}, Attribution("Unknown", "Low", {}))}
              ELSE {report(kept, Determine(index, kept, top)) :
                        top \in {c \in kept : \A d \in kept : d.score <= c.score}} :
                kept \in Kept(Candidates(index, evidence))}

-----------------------------------------------------------------------------
(***************************************************************************)
(* check_action_availability and revalidate_before_move                    *)
(***************************************************************************)

PROTECTED_MOD_IDS == {"forge", "neoforge", "fabricloader", "minecraft", "java", "fabric-api"}

\* With nobody else's mod in the JAR.
AvailabilityOfAnyJar(report, index) == \* FAULTY
    LET c == CHOOSE d \in report.primary : TRUE
    IN CASE report.status # "Attributed" \/ report.confidence # "High" -> "Unavailable"
         [] c.jar = "none" \/ c.mod \in PROTECTED_MOD_IDS -> "Unavailable"
         [] Cardinality(Providers(index, c.mod)) > 1 -> "UnavailableDuplicateProvider"
         [] OTHER -> "Available"
Availability(report, index) ==
    LET c == CHOOSE d \in report.primary : TRUE
    IN CASE report.status = "Ambiguous" -> "UnavailableAmbiguous"
         [] report.status = "Unknown" -> "UnavailableUnknown"
         [] report.confidence # "High" -> "UnavailableLowConfidence"
         [] Cardinality({d.mod : d \in report.candidates} \ {"none"}) > 1 -> "UnavailableAmbiguous"
         [] c.jar = "none" -> "UnavailableMissingJar"
         [] c.mod \in PROTECTED_MOD_IDS -> "UnavailableProtectedComponent"
         [] Len(index[c.jar].ids) > 1 /\ Range(index[c.jar].ids) # {c.mod} -> "UnavailableMultiModJar"
         [] Cardinality(Providers(index, c.mod)) > 1 -> "UnavailableDuplicateProvider"
         [] OTHER -> "Available"

\* The move is refused if the JAR went or has other mods by then.
MayMove(index, jar, mod) ==
    /\ jar \in DOMAIN index
    /\ index[jar].ids = <<>> \/ Contains(index[jar].ids, mod)

-----------------------------------------------------------------------------
(***************************************************************************)
(* Properties of every log and index.                                      *)
(***************************************************************************)

Named(log) ==
    {log[i].of : i \in {j \in DOMAIN log : log[j].kind \in {"Mod ID", "failed mod", "entrypoint", "startup"}}}

\* determine_attribution: a log in which the loader names two mods is never
\* blamed on one, whatever else it holds.
TwoNamedModsAreAmbiguous(log, index) ==
    Cardinality(Named(log)) > 1 => \A r \in Analyze(log, index) : r.status = "Ambiguous"

\* check_action_availability: the JAR that the user may have taken away
\* brings no other mod, is the only one with its mod, and no other mod was
\* suspected, if it is blamed for a mod at all; and it can be moved.
QuarantineIsPrecise(log, index) ==
    \A r \in Analyze(log, index) :
        Availability(r, index) = "Available" =>
            \A c \in r.primary :
                /\ c.jar \in DOMAIN index /\ Range(index[c.jar].ids) \subseteq {c.mod}
                /\ Providers(index, c.mod) \subseteq {c.jar}
                /\ c.mod # "none" => \A d \in r.candidates : d.mod \in {c.mod, "none"}
                /\ MayMove(index, c.jar, c.mod)
=============================================================================
